---- MODULE Spec2Model ----
(***************************************************************************)
(* Provider routing, provider adapters and the per-user rate limiter of    *)
(* the Telegram AI assistant.                                              *)
(*   AIService            src/src/services/ai/ai_service.py                *)
(*   OpenAI/ClaudeProvider src/src/services/ai/{openai,claude}_provider.py *)
(*   UserSettingsService  src/src/services/user_settings.py                *)
(*   MessageHandler       src/src/bot/handlers/messages.py                 *)
(***************************************************************************)
EXTENDS Integers, Sequences, FiniteSets, TLC

VARIABLES
    started,           \* TelegramAIAssistant.initialize has run
    settings,          \* UserSettingsService.settings: user -> {api_keys, provider}
    user_preferences,  \* AIService.user_preferences: the in-memory session overrides
    providers,         \* AIService.providers: the registered adapters
    current_provider,  \* AIService.current_provider (a reference into providers)
    last,              \* the generate_response call that has just returned, or None
    rate_limit,        \* Config.RATE_LIMIT_PER_MINUTE of this process
    now,               \* time.time()
    rate_limit_cache,  \* MessageHandler.rate_limit_cache
    admitted,          \* history: the instants of every admitted call, per user
    lastCheck,         \* the _check_rate_limit call that has just returned, or None
    adapterCall,       \* the adapter generate_response call that has just returned
    max_history,       \* Config.MAX_CONVERSATION_HISTORY of this process
    redis_state,       \* RedisClient: "new", or after initialize "ready" / "down"
    conversation,      \* the Redis list conversation:<user>, head first
    conversation_ttl,  \* the instant that list expires, -1 when it has no expiry
    pushed,            \* history: the entries pushed for the user since the last clear,
                       \* each with whether the add that pushed it ran to its end
    lastStore,         \* the RedisClient call that has just returned, or None
    user_interactions, \* table user_interactions: per user, the UTC day each stored
                       \* row was created on, oldest first
    user_stats,        \* table user_stats: the aggregate row of each user
    lastLog,           \* the log_user_interaction call that has just returned, or None
    turn,              \* the handle_message call that has just returned, or None
    settings_file,     \* data/user_settings.json: its condition and the document in it
    lastWrite,         \* history: the value last written to each field of each user
    user_data,         \* context.user_data of each user: conversation_state, adding_provider
    conversations,     \* ConversationHandler settings_conversation: the state of each user
    tasks              \* the handler coroutines on the event loop and where each stands

vars == <<started, settings, user_preferences, providers, current_provider, last,
          rate_limit, now, rate_limit_cache, admitted, lastCheck, adapterCall,
          max_history, redis_state, conversation, conversation_ttl, pushed, lastStore,
          user_interactions, user_stats, lastLog, turn, settings_file, lastWrite,
          user_data, conversations, tasks>>

routeVars == <<started, settings, user_preferences, providers, current_provider, last>>
rateVars == <<rate_limit, now, rate_limit_cache, admitted, lastCheck>>
storeVars == <<max_history, redis_state, conversation, conversation_ttl, pushed, lastStore>>
turnVars == <<user_interactions, user_stats, lastLog, turn>>
prefVars == <<settings_file, lastWrite>>
loopVars == <<user_data, conversations, tasks>>

----------------------------------------------------------------------------
(* Bounds *)

MaxCeiling == 2     \* ceilings 0..MaxCeiling are configured as RATE_LIMIT_PER_MINUTE
MaxTime == 130      \* the clock stops advancing here
MaxDepth == 2       \* depths 1..MaxDepth are configured as MAX_CONVERSATION_HISTORY
MaxAppends == 3     \* entries pushed to one user's list between two clears
MaxDays == 2        \* the store is followed for MaxDays times 24 hours
MaxTurns == 3       \* admitted handle_message turns, all users together
MaxMessages == 3     \* messages in one list handed to the Claude adapter
MaxRecords == 3     \* log_user_interaction calls that reach the database, per user
MaxUsageDays == 4   \* the usage recorder is followed until this many midnights passed

(* Program constants *)

WINDOW == 60        \* messages.py:81  minute_ago = current_time - 60
NumFallbacks == 6   \* base_provider.py:29-36  six generic notices

Users == {1, 2}
ProviderNames == {"openai", "claude"}
None == "None"

\* A credential typed in by a user; owner records whose settings entry it was stored in.
\* Routing never looks inside a credential, so one value per user is enough.
KeyValues == {1}
Keys == [owner : Users, v : KeyValues]
\* the provider has no entry in the user's api_keys
NoKey == [owner |-> 0, v |-> 0]
KeysOf(u) == {k \in Keys : k.owner = u}
\* Config.OPENAI_API_KEY / Config.CLAUDE_API_KEY
EnvKey(name) == [owner |-> 0, v |-> IF name = "openai" THEN 1 ELSE 2]
\* The credentials that do not look like a key of either provider ("test_key_123")
BadValues == {3}
\* the credentials the preference store is exercised with
TypedKeys(u) == [owner : {u}, v : KeyValues \cup BadValues]
\* the text of a credential, cut into the pieces the prefix tests tell apart
KeyText(k) == IF k = NoKey THEN <<>>
              ELSE IF k.v \in BadValues THEN <<"test_key_", "123">>
              ELSE <<"sk-", "ant-", "x">>
\* str.startswith
StartsWith(text, prefix) ==
    Len(prefix) <= Len(text) /\ SubSeq(text, 1, Len(prefix)) = prefix
\* Config.OPENAI_MODEL / Config.CLAUDE_MODEL
ConfigModel(name) == IF name = "openai" THEN "gpt-3.5-turbo" ELSE "claude-3-opus-20240229"
\* default model of the adapter constructors
DefaultModel(name) == IF name = "openai" THEN "gpt-3.5-turbo" ELSE "claude-3-haiku-20240307"
\* models a user may pick with the session override (None: no model given)
SessionModels == {None, "gpt-4"}

----------------------------------------------------------------------------
(* Texts *)

UNAVAILABLE == "service-unavailable"   \* ai_service.py:136
APOLOGY == "generic-apology"           \* ai_service.py:140
CONTEXT_NOTICE == "context-too-long"   \* openai_provider.py:65, claude_provider.py:86

\* BaseAIProvider.get_fallback_response: the fixed list random.choice draws from
fallback_responses ==
    <<"fallback-1", "fallback-2", "fallback-3", "fallback-4", "fallback-5", "fallback-6">>

get_fallback_response(fb) == fallback_responses[fb]

FallbackSet == {fallback_responses[i] : i \in 1..NumFallbacks}

QuotaNotice(name) == IF name = "openai" THEN "quota-OpenAI" ELSE "quota-Claude"
KeyNotice(name) == IF name = "openai" THEN "invalid-key-OpenAI" ELSE "invalid-key-Claude"
RateNotice(name) == IF name = "openai" THEN "rate-limit-OpenAI" ELSE "rate-limit-Claude"

\* The substrings the adapters look for in str(e).lower()
ErrTokens == {"insufficient_quota", "quota", "invalid_api_key", "authentication",
              "rate_limit", "context_length"}
\* An error message, as the set of those substrings it contains
ErrMsgs == {m \in SUBSET ErrTokens : "insufficient_quota" \in m => "quota" \in m}

\* message.content of a backend reply and str.strip() of it
Contents == {"answer", " answer ", " "}
Strip(c) == CASE c = " answer " -> "answer"
              [] c = " " -> ""
              [] OTHER -> c

\* What the backend call does: a reply with content, a reply without choices,
\* or an exception whose message is msg
Outcomes == [kind : {"ok"}, content : Contents, msg : {{}}]
            \cup [kind : {"empty"}, content : {""}, msg : {{}}]
            \cup [kind : {"error"}, content : {""}, msg : ErrMsgs]

\* ClassifyError with the rate-limit test moved in front of the quota test
ClassifyError_RateFirst(name, msg, fb) ==
    IF "rate_limit" \in msg THEN RateNotice(name)
    ELSE IF "insufficient_quota" \in msg \/ "quota" \in msg THEN QuotaNotice(name)
    ELSE IF "invalid_api_key" \in msg \/ "authentication" \in msg THEN KeyNotice(name)
    ELSE IF "context_length" \in msg THEN CONTEXT_NOTICE
    ELSE get_fallback_response(fb)

\* the except branch shared by both adapters
ClassifyError(name, msg, fb) ==
    IF "insufficient_quota" \in msg \/ "quota" \in msg THEN QuotaNotice(name)
    ELSE IF "invalid_api_key" \in msg \/ "authentication" \in msg THEN KeyNotice(name)
    ELSE IF "rate_limit" \in msg THEN RateNotice(name)
    ELSE IF "context_length" \in msg THEN CONTEXT_NOTICE
    ELSE get_fallback_response(fb)

\* OpenAIProvider.generate_response / ClaudeProvider.generate_response:
\* the whole body is inside try/except Exception, so raised is always FALSE
ProviderGenerate(name, outcome, fb) ==
    IF outcome.kind = "ok" THEN [raised |-> FALSE, text |-> Strip(outcome.content)]
    ELSE IF outcome.kind = "empty" THEN [raised |-> FALSE, text |-> get_fallback_response(fb)]
    ELSE [raised |-> FALSE, text |-> ClassifyError(name, outcome.msg, fb)]

----------------------------------------------------------------------------
(* Routing: AIService and UserSettingsService *)

\* An adapter object. shared: it is the object held in AIService.providers
\* (built at startup from the environment credential), not one built for a call.
NoAdapter == [name |-> None, api_key |-> NoKey, model |-> None, shared |-> FALSE]

\* main.py:79-100  the adapter registered for name at startup
EnvAdapter(name) ==
    [name |-> name, api_key |-> EnvKey(name), model |-> ConfigModel(name), shared |-> TRUE]

\* ai_service.py:75-90  OpenAIProvider(api_key=...) / ClaudeProvider(api_key=...)
UserAdapter(name, key) ==
    [name |-> name, api_key |-> key, model |-> DefaultModel(name), shared |-> FALSE]

\* OpenAIProvider.validate_config / ClaudeProvider.validate_config
valid_prefixes == {<<"sk-", "ant-">>, <<"sk-", "ant_api03-">>, <<"sk-", "ant_api04-">>}

validate_config(inst) ==
    /\ inst.api_key # NoKey
    /\ IF inst.name = "openai" THEN StartsWith(KeyText(inst.api_key), <<"sk-">>)
       ELSE \E prefix \in valid_prefixes : StartsWith(KeyText(inst.api_key), prefix)

\* The preference store. A user's entry holds the sections the mutations have
\* created in it; a user without sections has no entry in the store.
NoEntry == [sections |-> {}, api_keys |-> [p \in ProviderNames |-> NoKey],
            provider |-> None, model |-> None, stats |-> 0]
EmptyStore == [u \in Users |-> NoEntry]

\* UserSettingsService.get_user_api_keys
get_user_api_keys(s, u) == s[u].api_keys

\* set_user_preference that rebuilds the user's entry from the one preference
set_user_preference_ReplacesEntry(s, u, key, value) ==
    [s EXCEPT ![u] = [NoEntry EXCEPT !.sections = {"preferences"}, ![key] = value]]

\* set_user_api_key that keeps a credential the provider already has
set_user_api_key_KeepsFirst(s, u, p, k) ==
    [s EXCEPT ![u].sections = @ \cup {"api_keys"},
              ![u].api_keys[p] = IF @ = NoKey THEN k ELSE @]

\* the in-memory part of the mutations of UserSettingsService
set_user_api_key(s, u, p, k) ==
    [s EXCEPT ![u].sections = @ \cup {"api_keys"}, ![u].api_keys[p] = k]

remove_user_api_key(s, u, p) ==
    IF "api_keys" \in s[u].sections THEN [s EXCEPT ![u].api_keys[p] = NoKey] ELSE s

set_user_preference(s, u, key, value) ==
    [s EXCEPT ![u].sections = @ \cup {"preferences"}, ![u][key] = value]

delete_user_data(s, u) == [s EXCEPT ![u] = NoEntry]

update_user_stats(s, u, n) ==
    [s EXCEPT ![u].sections = @ \cup {"stats"}, ![u].stats = n]

\* What open(..., 'w') and json.dump do to the file: "open" fails before the file
\* is touched, "dump" fails after it was truncated
SaveFaults == {"no", "open", "dump"}
NoFile == [state |-> "absent", doc |-> EmptyStore]

\* _save_settings that writes only when the file does not exist yet
SaveSettings_OnceOnly(s, file, fault) ==
    IF file.state = "absent" /\ fault = "no" THEN [state |-> "written", doc |-> s] ELSE file

\* UserSettingsService._save_settings: every exception is logged and dropped
SaveSettings(s, file, fault) ==
    IF fault = "no" THEN [state |-> "written", doc |-> s]
    ELSE IF fault = "open" THEN file
    ELSE [state |-> "broken", doc |-> EmptyStore]

\* UserSettingsService._load_settings: {} when the file is absent or unreadable
LoadSettings(file) == IF file.state = "written" THEN file.doc ELSE EmptyStore

\* the fields of an entry, without its sections
Fields(e) == [api_keys |-> e.api_keys, provider |-> e.provider, model |-> e.model,
              stats |-> e.stats]

\* UserSettingsService.get_user_api_keys(u).get(name)
get_user_api_key(u, name) == settings[u].api_keys[name]

\* UserSettingsService.get_user_provider
get_user_provider(u) == settings[u].provider

\* What the environment does to one generate_response call:
\*   storeFails    which preference store lookup raises (corrupt store), if any
\*   constructFails the adapter constructor raises
\*   outcome, fb   the backend's answer and the draw of random.choice
StoreFailures == {"no", "provider", "keys"}

\* AIService._get_user_provider: [raised, inst]
\* GetUserProvider that never builds an adapter from the user's credential
GetUserProvider_RegisteredOnly(u, name, inp) ==
    IF inp.storeFails = "keys" THEN [raised |-> TRUE, cfail |-> FALSE, inst |-> NoAdapter]
    ELSE [raised |-> FALSE, cfail |-> FALSE, inst |-> providers[name]]

\* GetUserProvider reading the credential from whichever entry of the store has one
GetUserProvider_AnyEntry(u, name, inp) ==
    IF inp.storeFails = "keys" THEN [raised |-> TRUE, cfail |-> FALSE, inst |-> NoAdapter]
    ELSE LET holders == {v \in Users : settings[v].api_keys[name] # NoKey} IN
         IF holders = {} \/ inp.constructFails
         THEN [raised |-> FALSE, cfail |-> holders # {}, inst |-> providers[name]]
         ELSE [raised |-> FALSE, cfail |-> FALSE,
               inst |-> UserAdapter(name, settings[CHOOSE v \in holders :
                                                     \A w \in holders : v <= w].api_keys[name])]

\* cfail: the constructor raised and the except branch (lines 95-97) ran
GetUserProvider(u, name, inp) ==
    IF inp.storeFails = "keys" THEN [raised |-> TRUE, cfail |-> FALSE, inst |-> NoAdapter]
    ELSE LET user_api_key == get_user_api_key(u, name) IN
         IF user_api_key = NoKey
         THEN [raised |-> FALSE, cfail |-> FALSE, inst |-> providers[name]]
         ELSE IF name \in {"openai", "claude"}
              THEN IF inp.constructFails
                   THEN [raised |-> FALSE, cfail |-> TRUE, inst |-> providers[name]]
                   ELSE [raised |-> FALSE, cfail |-> FALSE,
                         inst |-> UserAdapter(name, user_api_key)]
         ELSE [raised |-> FALSE, cfail |-> FALSE, inst |-> providers[name]]

\* generate_response without its except branch: the exception reaches the caller
Caught_Propagates(calls, provs) ==
    [text |-> None, calls |-> calls, path |-> "error", raised |-> TRUE, cfail |-> FALSE,
     provs |-> provs]

\* the except branch of generate_response; provs: AIService.providers when it is reached
Caught(calls, provs) ==
    [text |-> APOLOGY, calls |-> calls, path |-> "error", raised |-> FALSE, cfail |-> FALSE,
     provs |-> provs]

\* Invoke that tries the default adapter again after a generic failure notice
Invoke_Retry(inst, path, inp, provs) ==
    LET g == ProviderGenerate(inst.name, inp.outcome, inp.fb) IN
    IF g.text \in FallbackSet /\ path # "default" /\ current_provider # None
    THEN [text |-> g.text, calls |-> <<inst, provs[current_provider]>>, path |-> path,
          raised |-> FALSE, cfail |-> FALSE, provs |-> provs]
    ELSE [text |-> g.text, calls |-> <<inst>>, path |-> path, raised |-> FALSE,
          cfail |-> FALSE, provs |-> provs]

\* return await provider_instance.generate_response(messages)
Invoke(inst, path, inp, provs) ==
    LET g == ProviderGenerate(inst.name, inp.outcome, inp.fb) IN
    IF g.raised THEN Caught(<<inst>>, provs)
    ELSE [text |-> g.text, calls |-> <<inst>>, path |-> path, raised |-> FALSE,
          cfail |-> FALSE, provs |-> provs]

\* DefaultStep that picks any registered adapter when no default was designated
DefaultStep_AnyRegistered(inp, provs) ==
    IF current_provider # None
    THEN Invoke(provs[current_provider], "default", inp, provs)
    ELSE IF \E p \in ProviderNames : provs[p] # NoAdapter
    THEN Invoke(provs[CHOOSE p \in ProviderNames : provs[p] # NoAdapter], "default", inp, provs)
    ELSE [text |-> UNAVAILABLE, calls |-> <<>>, path |-> "none", raised |-> FALSE,
          cfail |-> FALSE, provs |-> provs]

\* ai_service.py:129-136
DefaultStep(inp, provs) ==
    IF current_provider # None
    THEN Invoke(provs[current_provider], "default", inp, provs)
    ELSE [text |-> UNAVAILABLE, calls |-> <<>>, path |-> "none", raised |-> FALSE,
          cfail |-> FALSE, provs |-> provs]

\* ai_service.py:115-127
SessionStep(u, inp) ==
    LET preference == user_preferences[u] IN
    IF preference.provider = None THEN DefaultStep(inp, providers)
    ELSE LET r == GetUserProvider(u, preference.provider, inp) IN
         IF r.raised THEN Caught(<<>>, providers)
         ELSE IF r.inst = NoAdapter
              THEN [DefaultStep(inp, providers) EXCEPT !.cfail = r.cfail]
         ELSE IF preference.model = None
              THEN [Invoke(r.inst, "session", inp, providers) EXCEPT !.cfail = r.cfail]
         ELSE LET inst == [r.inst EXCEPT !.model = preference.model]
                  provs == IF r.inst.shared
                           THEN [providers EXCEPT ![preference.provider] = inst]
                           ELSE providers
              IN [Invoke(inst, "session", inp, provs) EXCEPT !.cfail = r.cfail]

\* AIService.generate_response(messages, user_id)
GenerateResponse(u, inp) ==
    IF inp.storeFails = "provider" THEN Caught(<<>>, providers)
    ELSE LET user_provider == get_user_provider(u) IN
         IF user_provider = None THEN SessionStep(u, inp)
         ELSE LET r == GetUserProvider(u, user_provider, inp) IN
              IF r.raised THEN Caught(<<>>, providers)
              ELSE IF r.inst = NoAdapter
                   THEN LET s == SessionStep(u, inp) IN [s EXCEPT !.cfail = r.cfail \/ s.cfail]
              ELSE [Invoke(r.inst, "stored", inp, providers) EXCEPT !.cfail = r.cfail]

\* AIService.test_provider(provider_name) without a user id
TestProvider(name, outcome, fb, fb2) ==
    IF providers[name] = NoAdapter THEN FALSE
    ELSE LET g == ProviderGenerate(name, outcome, fb) IN
         IF g.raised THEN FALSE
         ELSE g.text # "" /\ g.text # get_fallback_response(fb2)

\* AIService.test_provider(provider_name, user_id): the adapter _get_user_provider
\* gives for the user is asked once; its answer is compared with one fresh draw of
\* get_fallback_response
TestProviderAs(u, name, inp, fb2) ==
    LET r == GetUserProvider(u, name, inp) IN
    IF r.raised THEN FALSE
    ELSE IF r.inst # NoAdapter
    THEN LET g == ProviderGenerate(r.inst.name, inp.outcome, inp.fb) IN
         IF g.raised THEN FALSE
         ELSE g.text # "" /\ g.text # get_fallback_response(fb2)
    ELSE TestProvider(name, inp.outcome, inp.fb, fb2)

Idle == [user |-> 0, text |-> None, calls |-> <<>>, path |-> None, raised |-> FALSE,
         cfail |-> FALSE]

InitRoute ==
    /\ started = FALSE
    /\ settings = LoadSettings(NoFile)
    /\ settings_file = NoFile
    /\ lastWrite = [u \in Users |-> Fields(NoEntry)]
    /\ user_preferences = [u \in Users |-> [provider |-> None, model |-> None]]
    /\ providers = [p \in ProviderNames |-> NoAdapter]
    /\ current_provider = None
    /\ last = Idle

\* TelegramAIAssistant.initialize: register an adapter for each credential
\* present in the environment
Initialize(envOpenai, envClaude) ==
    /\ ~started
    /\ started' = TRUE
    /\ providers' = [p \in ProviderNames |->
                       IF (p = "openai" /\ envOpenai) \/ (p = "claude" /\ envClaude)
                       THEN EnvAdapter(p) ELSE NoAdapter]
    /\ UNCHANGED <<settings, user_preferences, current_provider, last>>
    /\ UNCHANGED <<rateVars, adapterCall, prefVars, loopVars, storeVars, turnVars>>

\* UserSettingsService.set_user_api_key
SetUserApiKey(u, p, k, fault) ==
    /\ started /\ last = Idle
    /\ settings' = set_user_api_key(settings, u, p, k)
    /\ settings_file' = SaveSettings(settings', settings_file, fault)
    /\ lastWrite' = [lastWrite EXCEPT ![u].api_keys[p] = k]
    /\ UNCHANGED <<started, user_preferences, providers, current_provider, last>>
    /\ UNCHANGED <<rateVars, adapterCall, storeVars, turnVars, loopVars>>

\* UserSettingsService.remove_user_api_key: saves when the user has an api_keys section
RemoveUserApiKey(u, p, fault) ==
    /\ started /\ last = Idle
    /\ settings' = remove_user_api_key(settings, u, p)
    /\ settings_file' = IF "api_keys" \in settings[u].sections
                        THEN SaveSettings(settings', settings_file, fault)
                        ELSE settings_file
    /\ lastWrite' = [lastWrite EXCEPT ![u].api_keys[p] = NoKey]
    /\ UNCHANGED <<started, user_preferences, providers, current_provider, last>>
    /\ UNCHANGED <<rateVars, adapterCall, storeVars, turnVars, loopVars>>

\* UserSettingsService.set_user_preference
SetUserPreference(u, key, value, fault) ==
    /\ started /\ last = Idle
    /\ settings' = set_user_preference(settings, u, key, value)
    /\ settings_file' = SaveSettings(settings', settings_file, fault)
    /\ lastWrite' = [lastWrite EXCEPT ![u][key] = value]
    /\ UNCHANGED <<started, user_preferences, providers, current_provider, last>>
    /\ UNCHANGED <<rateVars, adapterCall, storeVars, turnVars, loopVars>>

\* UserSettingsService.set_user_provider
SetUserProvider(u, p) == SetUserPreference(u, "provider", p, "no")

\* UserSettingsService.delete_user_data: saves when the user has an entry
DeleteUserData(u, fault) ==
    /\ started /\ last = Idle
    /\ settings' = delete_user_data(settings, u)
    /\ settings_file' = IF settings[u].sections # {}
                        THEN SaveSettings(settings', settings_file, fault)
                        ELSE settings_file
    /\ lastWrite' = [lastWrite EXCEPT ![u] = Fields(NoEntry)]
    /\ UNCHANGED <<started, user_preferences, providers, current_provider, last>>
    /\ UNCHANGED <<rateVars, adapterCall, storeVars, turnVars, loopVars>>

\* UserSettingsService.update_user_stats
UpdateUserStats(u, n, fault) ==
    /\ started /\ last = Idle
    /\ settings' = update_user_stats(settings, u, n)
    /\ settings_file' = SaveSettings(settings', settings_file, fault)
    /\ lastWrite' = [lastWrite EXCEPT ![u].stats = n]
    /\ UNCHANGED <<started, user_preferences, providers, current_provider, last>>
    /\ UNCHANGED <<rateVars, adapterCall, storeVars, turnVars, loopVars>>

\* the states of the settings conversation: waiting for the key, or ended
WAITING_FOR_API_KEY == "WAITING_FOR_API_KEY"
END == "END"
\* context.user_data without the two keys of the settings conversation
NoData == [conversation_state |-> None, adding_provider |-> None]

\* handle_api_key_input selecting the provider of every key that passes its test
HandleApiKeyInput_AlwaysSwitches(u, p, k, test_result, fault, fault2) ==
    LET accepted == IF p = "openai" THEN StartsWith(KeyText(k), <<"sk-">>)
                    ELSE \/ StartsWith(KeyText(k), <<"sk-", "ant-">>)
                         \/ StartsWith(KeyText(k), <<"sk-", "ant_api03-">>)
        stored == set_user_api_key(settings, u, p, k)
        tested == IF p = "claude" THEN TRUE ELSE test_result
        switch == tested
        file == SaveSettings(stored, settings_file, fault)
    IN /\ started /\ last = Idle
       /\ IF accepted
          THEN /\ settings' = IF switch THEN set_user_preference(stored, u, "provider", p)
                              ELSE stored
               /\ settings_file' = IF switch THEN SaveSettings(settings', file, fault2)
                                   ELSE file
               /\ lastWrite' = [lastWrite EXCEPT
                                  ![u].api_keys[p] = k,
                                  ![u].provider = IF switch THEN p ELSE @]
          ELSE UNCHANGED <<settings, settings_file, lastWrite>>
       /\ user_data' = [user_data EXCEPT ![u] = IF accepted THEN NoData ELSE @]
       /\ conversations' = [conversations EXCEPT ![u] = IF accepted THEN END ELSE @]
       /\ UNCHANGED <<started, user_preferences, providers, current_provider, last>>
       /\ UNCHANGED <<rateVars, adapterCall, storeVars, turnVars, tasks>>

\* SettingsCommandsHandler.handle_api_key_input: a key of the wrong format is
\* refused; otherwise it is stored, tested, and the provider becomes the user's
\* choice when the test passed and the user had none. No await separates the writes.
HandleApiKeyInput(u, p, k, test_result, fault, fault2) ==
    LET accepted == IF p = "openai" THEN StartsWith(KeyText(k), <<"sk-">>)
                    ELSE \/ StartsWith(KeyText(k), <<"sk-", "ant-">>)
                         \/ StartsWith(KeyText(k), <<"sk-", "ant_api03-">>)
        stored == set_user_api_key(settings, u, p, k)
        tested == IF p = "claude" THEN TRUE ELSE test_result
        switch == tested /\ stored[u].provider = None
        file == SaveSettings(stored, settings_file, fault)
    IN /\ started /\ last = Idle
       /\ IF accepted
          THEN /\ settings' = IF switch THEN set_user_preference(stored, u, "provider", p)
                              ELSE stored
               /\ settings_file' = IF switch THEN SaveSettings(settings', file, fault2)
                                   ELSE file
               /\ lastWrite' = [lastWrite EXCEPT
                                  ![u].api_keys[p] = k,
                                  ![u].provider = IF switch THEN p ELSE @]
          ELSE UNCHANGED <<settings, settings_file, lastWrite>>
       /\ user_data' = [user_data EXCEPT ![u] = IF accepted THEN NoData ELSE @]
       /\ conversations' = [conversations EXCEPT ![u] = IF accepted THEN END ELSE @]
       /\ UNCHANGED <<started, user_preferences, providers, current_provider, last>>
       /\ UNCHANGED <<rateVars, adapterCall, storeVars, turnVars, tasks>>

\* AICommandsHandler.set_user_provider: test the provider, then
\* AIService.set_user_preference and, when no default is set, set_current_provider
SetSessionProvider(u, p, m, outcome, fb, fb2) ==
    /\ started /\ last = Idle
    /\ IF TestProvider(p, outcome, fb, fb2)
       THEN /\ user_preferences' = [user_preferences EXCEPT ![u] = [provider |-> p, model |-> m]]
            /\ current_provider' = IF current_provider = None THEN p ELSE current_provider
       ELSE UNCHANGED <<user_preferences, current_provider>>
    /\ UNCHANGED <<started, settings, providers, last>>
    /\ UNCHANGED <<rateVars, adapterCall, prefVars, loopVars, storeVars, turnVars>>

\* One call of AIService.generate_response for user u
Generate(u, inp) ==
    /\ started /\ last = Idle
    /\ LET r == GenerateResponse(u, inp) IN
       /\ last' = [user |-> u, text |-> r.text, calls |-> r.calls, path |-> r.path,
                   raised |-> r.raised, cfail |-> r.cfail]
       /\ providers' = r.provs
    /\ UNCHANGED <<started, settings, user_preferences, current_provider>>
    /\ UNCHANGED <<rateVars, adapterCall, prefVars, loopVars, storeVars, turnVars>>

\* The caller takes the returned text
Reply ==
    /\ last # Idle
    /\ last' = Idle
    /\ UNCHANGED <<started, settings, user_preferences, providers, current_provider>>
    /\ UNCHANGED <<rateVars, adapterCall, prefVars, loopVars, storeVars, turnVars>>

----------------------------------------------------------------------------
(* Rate limiter: MessageHandler._check_rate_limit *)

\* the clock advances by one of these between two calls
TimeSteps == {20, 60}

NoCheck == [user |-> 0, time |-> 0, result |-> FALSE]

\* Prune that keeps every recorded request
Prune_Nothing(user_requests, minute_ago) == user_requests

\* _check_rate_limit keeping timestamps that are exactly 60 seconds old
Prune_KeepsBoundary(user_requests, minute_ago) ==
    SelectSeq(user_requests, LAMBDA t : t >= minute_ago)

\* [req_time for req_time in user_requests if req_time > minute_ago]
Prune(user_requests, minute_ago) == SelectSeq(user_requests, LAMBDA t : t > minute_ago)

\* _check_rate_limit comparing with > instead of >=
CheckRateLimit_OffByOne(u) ==
    LET current_time == now
        minute_ago == current_time - WINDOW
        user_requests == Prune(rate_limit_cache[u], minute_ago)
    IN IF Len(user_requests) > rate_limit
       THEN /\ lastCheck' = [user |-> u, time |-> current_time, result |-> FALSE]
            /\ UNCHANGED <<rate_limit, now, rate_limit_cache, admitted>>
            /\ UNCHANGED <<routeVars, adapterCall, prefVars, loopVars, storeVars, turnVars>>
       ELSE /\ rate_limit_cache' =
                  [rate_limit_cache EXCEPT ![u] = Append(user_requests, current_time)]
            /\ admitted' = [admitted EXCEPT ![u] = Append(@, current_time)]
            /\ lastCheck' = [user |-> u, time |-> current_time, result |-> TRUE]
            /\ UNCHANGED <<rate_limit, now>>
            /\ UNCHANGED <<routeVars, adapterCall, prefVars, loopVars, storeVars, turnVars>>

\* _check_rate_limit recording the call before it tests the ceiling
CheckRateLimit_RecordsRejected(u) ==
    LET current_time == now
        minute_ago == current_time - WINDOW
        user_requests == Prune(rate_limit_cache[u], minute_ago)
    IN /\ rate_limit_cache' =
             [rate_limit_cache EXCEPT ![u] = Append(user_requests, current_time)]
       /\ IF Len(user_requests) >= rate_limit
          THEN /\ lastCheck' = [user |-> u, time |-> current_time, result |-> FALSE]
               /\ UNCHANGED admitted
          ELSE /\ admitted' = [admitted EXCEPT ![u] = Append(@, current_time)]
               /\ lastCheck' = [user |-> u, time |-> current_time, result |-> TRUE]
       /\ UNCHANGED <<rate_limit, now>>
       /\ UNCHANGED <<routeVars, adapterCall, prefVars, loopVars, storeVars, turnVars>>

\* MessageHandler._check_rate_limit(user_id) called at time.time() = now
CheckRateLimit(u) ==
    LET current_time == now
        minute_ago == current_time - WINDOW
        user_requests == Prune(rate_limit_cache[u], minute_ago)
    IN IF Len(user_requests) >= rate_limit
       THEN /\ lastCheck' = [user |-> u, time |-> current_time, result |-> FALSE]
            /\ UNCHANGED <<rate_limit, now, rate_limit_cache, admitted>>
            /\ UNCHANGED <<routeVars, adapterCall, prefVars, loopVars, storeVars, turnVars>>
       ELSE /\ rate_limit_cache' =
                  [rate_limit_cache EXCEPT ![u] = Append(user_requests, current_time)]
            /\ admitted' = [admitted EXCEPT ![u] = Append(@, current_time)]
            /\ lastCheck' = [user |-> u, time |-> current_time, result |-> TRUE]
            /\ UNCHANGED <<rate_limit, now>>
            /\ UNCHANGED <<routeVars, adapterCall, prefVars, loopVars, storeVars, turnVars>>

\* time passes
Tick(d) ==
    /\ now + d <= MaxTime
    /\ now' = now + d
    /\ lastCheck' = NoCheck
    /\ UNCHANGED <<rate_limit, rate_limit_cache, admitted>>
    /\ UNCHANGED <<routeVars, adapterCall, prefVars, loopVars, storeVars, turnVars>>

InitRate ==
    /\ rate_limit \in 0..MaxCeiling
    /\ now = 0
    /\ rate_limit_cache = [u \in Users |-> <<>>]
    /\ admitted = [u \in Users |-> <<>>]
    /\ lastCheck = NoCheck

----------------------------------------------------------------------------
(* Adapters called on their own *)

\* the roles of the messages handed to an adapter
Roles == {"system", "user", "assistant"}
\* the texts the translation is exercised with, each a sequence of pieces
MessageTexts == {<<>>, <<"a">>, <<"b">>}
\* the messages of one call: at most MaxMessages of them
MessageLists == UNION {[1..n -> [role : Roles, content : MessageTexts]] : n \in 0..MaxMessages}

\* str.join
RECURSIVE Join(_, _)
Join(parts, sep) ==
    IF parts = <<>> THEN <<>>
    ELSE IF Len(parts) = 1 THEN parts[1]
    ELSE parts[1] \o sep \o Join(Tail(parts), sep)

\* the loop of ClaudeProvider.generate_response over the messages: the content of
\* the last system message, and the contents of the other messages in their order
RECURSIVE Split(_, _, _)
Split(messages, system_message, user_messages) ==
    IF messages = <<>>
    THEN [system_message |-> system_message, user_messages |-> user_messages]
    ELSE IF Head(messages).role = "system"
    THEN Split(Tail(messages), Head(messages).content, user_messages)
    ELSE Split(Tail(messages), system_message, Append(user_messages, Head(messages).content))

NoRequest == [has_system |-> FALSE, system |-> <<>>, messages |-> <<>>]

\* the request keeping the first system message it meets
ClaudeRequest_FirstSystem(messages) ==
    LET s == Split(messages, <<>>, <<>>)
        systems == SelectSeq(messages, LAMBDA m : m.role = "system")
        system_message == IF systems = <<>> THEN <<>> ELSE systems[1].content
    IN [has_system |-> system_message # <<>>,
        system |-> system_message,
        messages |-> <<[role |-> "user", content |-> Join(s.user_messages, <<"\n\n">>)]>>]

\* request_data of ClaudeProvider.generate_response: the system field is added
\* only when system_message is not empty
ClaudeRequest(messages) ==
    LET s == Split(messages, <<>>, <<>>)
    IN [has_system |-> s.system_message # <<>>,
        system |-> s.system_message,
        messages |-> <<[role |-> "user", content |-> Join(s.user_messages, <<"\n\n">>)]>>]

NoCall == [name |-> None, outcome |-> [kind |-> "empty", content |-> "", msg |-> {}],
           raised |-> FALSE, text |-> None, messages |-> <<>>, request |-> NoRequest]

\* OpenAIProvider.generate_response / ClaudeProvider.generate_response
AdapterGenerate(name, outcome, fb) ==
    LET g == ProviderGenerate(name, outcome, fb) IN
    /\ adapterCall' = [NoCall EXCEPT !.name = name, !.outcome = outcome,
                                     !.raised = g.raised, !.text = g.text]
    /\ UNCHANGED <<routeVars, rateVars, storeVars, turnVars, prefVars, loopVars>>

\* ClaudeProvider.generate_response building the request for the messages it got;
\* one call is followed
ClaudeBuildRequest(messages) ==
    /\ adapterCall = NoCall
    /\ adapterCall' = [NoCall EXCEPT !.name = "claude", !.messages = messages,
                                     !.request = ClaudeRequest(messages)]
    /\ UNCHANGED <<routeVars, rateVars, storeVars, turnVars, prefVars, loopVars>>

----------------------------------------------------------------------------
(* Conversation store: RedisClient, src/src/services/cache/redis_client.py *)

\* a message text; n tells the turns of one user apart
Content(t, n) == [t |-> t, n |-> n]

HISTORY_TTL == 86400

\* Redis LPUSH key value: the value becomes the head of the list
LPush(list, value) == <<value>> \o list

\* Redis index arithmetic: a negative index counts from the tail of the list
Index(i, n) == IF i < 0 THEN n + i ELSE i

\* Redis LRANGE key start stop on a list whose head has index 0
LRange(list, start, stop) ==
    LET n == Len(list)
        s == IF Index(start, n) < 0 THEN 0 ELSE Index(start, n)
        e == IF Index(stop, n) >= n THEN n - 1 ELSE Index(stop, n)
    IN IF s > e THEN <<>> ELSE SubSeq(list, s + 1, e + 1)

\* LTRIM keeping the tail of the list instead of its head
LTrim_KeepsOldest(list, start, stop) ==
    LET kept == stop - start + 1
    IN IF Len(list) <= kept THEN list ELSE SubSeq(list, Len(list) - kept + 1, Len(list))

\* Redis LTRIM key start stop: the list keeps the range LRANGE would return
LTrim(list, start, stop) == LRange(list, start, stop)

StoreFaults == {"no", "lpush", "ltrim", "expire"}

\* add_to_conversation_history setting the expiry only on a list that has none
AddToConversationHistory_KeepsExpiry(list, ttl, user_message, ai_response, fault) ==
    LET entry == [timestamp |-> now, user_message |-> user_message,
                  ai_response |-> ai_response]
        trimmed == LTrim(LPush(list, entry), 0, max_history * 2 - 1)
    IN [list |-> trimmed, ttl |-> IF ttl = -1 THEN now + HISTORY_TTL ELSE ttl,
        pushed |-> <<entry>>]

\* the body of RedisClient.add_to_conversation_history past the _initialized test:
\* the list and the instant of its expiry after the commands that ran before the fault
AddToConversationHistory(list, ttl, user_message, ai_response, fault) ==
    LET entry == [timestamp |-> now, user_message |-> user_message,
                  ai_response |-> ai_response]
        pushed_list == LPush(list, entry)
        max_len == max_history * 2
        trimmed == LTrim(pushed_list, 0, max_len - 1)
    IN CASE fault = "lpush" -> [list |-> list, ttl |-> ttl, pushed |-> <<>>]
         [] fault = "ltrim" -> [list |-> pushed_list, ttl |-> ttl, pushed |-> <<entry>>]
         [] fault = "expire" -> [list |-> trimmed, ttl |-> ttl, pushed |-> <<entry>>]
         [] OTHER -> [list |-> trimmed, ttl |-> now + HISTORY_TTL, pushed |-> <<entry>>]

\* the two messages get_conversation_history makes of each stored entry, in the
\* order of the list it read
RECURSIVE Messages(_)
Messages(history_data) ==
    IF history_data = <<>> THEN <<>>
    ELSE <<[role |-> "user", content |-> Head(history_data).user_message],
           [role |-> "assistant", content |-> Head(history_data).ai_response]>>
         \o Messages(Tail(history_data))

\* RedisClient.get_conversation_history: [] when the client is not initialized or
\* the read raises, else the messages of LRANGE key 0 -1
GetConversationHistory(list, fails) ==
    IF redis_state # "ready" \/ fails THEN <<>>
    ELSE Messages(LRange(list, 0, -1))

\* what leaves the except branch of a conversation operation of RedisClient when
\* the client is not initialized or a command fails: the failure is logged
StoreRaises_Propagates(unreachable) == unreachable

StoreRaises(unreachable) == FALSE

NoStore == [op |-> None, user |-> 0, completed |-> FALSE, result |-> <<>>,
            deleted |-> 0, raised |-> FALSE]

InitStore ==
    /\ max_history \in 1..MaxDepth
    /\ redis_state = "new"
    /\ conversation = [u \in Users |-> <<>>]
    /\ conversation_ttl = [u \in Users |-> -1]
    /\ pushed = [u \in Users |-> <<>>]
    /\ lastStore = NoStore

\* RedisClient.initialize connecting again although the client is initialized
RedisInitialize_Reconnects(ok) ==
    /\ redis_state' = IF ok THEN "ready" ELSE "down"
    /\ lastStore' = [NoStore EXCEPT !.op = "initialize", !.completed = ok]
    /\ UNCHANGED <<max_history, conversation, conversation_ttl, pushed>>
    /\ UNCHANGED <<routeVars, rateVars, adapterCall, prefVars, loopVars, turnVars>>

\* RedisClient.initialize: nothing when already initialized, else connect and
\* ping; a failure is logged, not raised
RedisInitialize(ok) ==
    /\ redis_state' = IF redis_state = "ready" \/ ok THEN "ready" ELSE "down"
    /\ lastStore' = [NoStore EXCEPT !.op = "initialize",
                                    !.completed = (redis_state = "ready" \/ ok)]
    /\ UNCHANGED <<max_history, conversation, conversation_ttl, pushed>>
    /\ UNCHANGED <<routeVars, rateVars, adapterCall, prefVars, loopVars, turnVars>>

\* the call of RedisClient.initialize in TelegramAIAssistant.initialize
StartRedis(ok) ==
    /\ ~started /\ redis_state = "new"
    /\ redis_state' = IF ok THEN "ready" ELSE "down"
    /\ UNCHANGED <<max_history, conversation, conversation_ttl, pushed, lastStore>>
    /\ UNCHANGED <<routeVars, rateVars, adapterCall, prefVars, loopVars, turnVars>>

\* RedisClient.add_to_conversation_history(user_id, user_message, ai_response)
AddTurn(u, fault) ==
    LET k == Len(pushed[u]) + 1
        a == AddToConversationHistory(conversation[u], conversation_ttl[u],
                                      Content("message", k), Content("answer", k), fault)
    IN /\ redis_state # "new"
       /\ Len(pushed[u]) < MaxAppends
       /\ IF redis_state = "ready"
          THEN /\ conversation' = [conversation EXCEPT ![u] = a.list]
               /\ conversation_ttl' = [conversation_ttl EXCEPT ![u] = a.ttl]
               /\ pushed' = [pushed EXCEPT ![u] =
                               @ \o [i \in 1..Len(a.pushed) |->
                                       [entry |-> a.pushed[i], completed |-> fault = "no"]]]
               /\ lastStore' = [NoStore EXCEPT !.op = "add", !.user = u,
                                               !.completed = (fault = "no"),
                                               !.raised = StoreRaises(fault # "no")]
          ELSE /\ lastStore' = [NoStore EXCEPT !.op = "add", !.user = u,
                                               !.raised = StoreRaises(TRUE)]
               /\ UNCHANGED <<conversation, conversation_ttl, pushed>>
       /\ UNCHANGED <<max_history, redis_state>>
       /\ UNCHANGED <<routeVars, rateVars, adapterCall, prefVars, loopVars, turnVars>>

\* RedisClient.get_conversation_history(user_id)
GetHistory(u, fails) ==
    /\ redis_state # "new"
    /\ lastStore' = [NoStore EXCEPT !.op = "get", !.user = u,
                                    !.completed = (redis_state = "ready" /\ ~fails),
                                    !.result = GetConversationHistory(conversation[u], fails),
                                    !.raised = StoreRaises(redis_state # "ready" \/ fails)]
    /\ UNCHANGED <<max_history, redis_state, conversation, conversation_ttl, pushed>>
    /\ UNCHANGED <<routeVars, rateVars, adapterCall, prefVars, loopVars, turnVars>>

\* clear_conversation_history deleting nothing
ClearConversationHistory_Keeps(list, ttl, fails) ==
    [list |-> list, ttl |-> ttl, deleted |-> 0]

\* the body of RedisClient.clear_conversation_history past the _initialized test:
\* DEL of the user's list
ClearConversationHistory(list, ttl, fails) ==
    IF fails THEN [list |-> list, ttl |-> ttl, deleted |-> 0]
    ELSE [list |-> <<>>, ttl |-> -1, deleted |-> IF list = <<>> THEN 0 ELSE 1]

\* RedisClient.clear_conversation_history(user_id)
ClearHistory(u, fails) ==
    LET c == ClearConversationHistory(conversation[u], conversation_ttl[u], fails)
    IN /\ redis_state # "new"
       /\ IF redis_state = "ready"
          THEN /\ conversation' = [conversation EXCEPT ![u] = c.list]
               /\ conversation_ttl' = [conversation_ttl EXCEPT ![u] = c.ttl]
               /\ pushed' = [pushed EXCEPT ![u] = IF fails THEN @ ELSE <<>>]
               /\ lastStore' = [NoStore EXCEPT !.op = "clear", !.user = u,
                                               !.completed = ~fails,
                                               !.deleted = c.deleted,
                                               !.raised = StoreRaises(fails)]
          ELSE /\ lastStore' = [NoStore EXCEPT !.op = "clear", !.user = u,
                                               !.raised = StoreRaises(TRUE)]
               /\ UNCHANGED <<conversation, conversation_ttl, pushed>>
       /\ UNCHANGED <<max_history, redis_state>>
       /\ UNCHANGED <<routeVars, rateVars, adapterCall, prefVars, loopVars, turnVars>>

\* the time between two calls of the store
Lifetimes == {HISTORY_TTL \div 2, HISTORY_TTL}

\* the list of a user at time t: Redis has removed a key whose expiry has passed
Unexpired(list, ttl, t) == IF ttl # -1 /\ t >= ttl THEN <<>> ELSE list

\* time passes and Redis removes the lists whose expiry has passed
Elapse(d) ==
    /\ redis_state # "new"
    /\ now + d <= MaxDays * HISTORY_TTL
    /\ now' = now + d
    /\ conversation' = [u \in Users |->
                          Unexpired(conversation[u], conversation_ttl[u], now + d)]
    /\ conversation_ttl' = [u \in Users |->
                              IF conversation'[u] = <<>> THEN -1 ELSE conversation_ttl[u]]
    /\ lastStore' = NoStore
    /\ UNCHANGED <<max_history, redis_state, pushed>>
    /\ UNCHANGED <<rate_limit, rate_limit_cache, admitted, lastCheck>>
    /\ UNCHANGED <<routeVars, adapterCall, prefVars, loopVars, turnVars>>

----------------------------------------------------------------------------
(* One conversational turn: MessageHandler.handle_message *)

SYSTEM_PROMPT == Content("system-preamble", 0)
NoContent == Content(None, 0)

\* Python history[-k:] when len(history) > k, else history
RecentHistory(history, k) ==
    IF Len(history) > k /\ k # 0
    THEN SubSeq(history, Len(history) - k + 1, Len(history))
    ELSE history

\* _prepare_conversation_context without the system preamble
PrepareConversationContext_NoPreamble(current_message, history) ==
    LET recent_history == RecentHistory(history, max_history)
    IN [i \in DOMAIN recent_history |->
            [role |-> recent_history[i].role, content |-> recent_history[i].content]]
       \o <<[role |-> "user", content |-> current_message]>>

\* MessageHandler._prepare_conversation_context(current_message, history)
PrepareConversationContext(current_message, history) ==
    LET recent_history == RecentHistory(history, max_history)
    IN <<[role |-> "system", content |-> SYSTEM_PROMPT]>>
       \o [i \in DOMAIN recent_history |->
            [role |-> recent_history[i].role, content |-> recent_history[i].content]]
       \o <<[role |-> "user", content |-> current_message]>>

\* the list _check_rate_limit computes for user u now, and its verdict
RateLimitOutcome(u) ==
    LET user_requests == Prune(rate_limit_cache[u], now - WINDOW)
    IN [ok |-> Len(user_requests) < rate_limit, requests |-> Append(user_requests, now)]

NoTurn == [user |-> 0, kind |-> None, admitted |-> FALSE, events |-> <<>>,
           message |-> NoContent, loaded |-> FALSE, context |-> <<>>,
           response |-> NoContent, storeFault |-> None, storeRaised |-> FALSE,
           appended |-> FALSE, dbFault |-> None, logged |-> FALSE]

\* where log_user_interaction fails: the service was never initialised, the insert
\* of the row, the update of the aggregate, or only the queries of the periodic counts
DbFaults == {"no", "uninitialized", "insert", "aggregate", "periodic"}

\* what leaves DatabaseService.log_user_interaction and the handler's wrapper of it
\* when the database fails: the failure is logged
UsageRaises_Propagates(fault) == fault # "no"

UsageRaises(fault) == FALSE

\* DatabaseService.log_user_interaction: the interaction row is committed before
\* the aggregate of the user is updated
RowCommitted(fault) == fault \in {"no", "aggregate", "periodic"}

\* datetime.utcnow() as a day count; day 0 is 1 January 1970, a Thursday
Day(t) == t \div (24 * 3600)
\* datetime.weekday(): Monday is 0
Weekday(d) == (d + 3) % 7
\* today_start and week_start of _update_periodic_stats, as day counts
TodayStart(t) == Day(t)
WeekStart(t) == TodayStart(t) - Weekday(TodayStart(t))

\* session.query(UserInteraction).filter(user_id == u, created_at >= start).count()
CountSince(rows, start) == Cardinality({i \in DOMAIN rows : rows[i] >= start})

NoStats == [exists |-> FALSE, total_messages |-> 0, messages_today |-> 0,
            messages_this_week |-> 0, tokens_used |-> 0]

\* _update_user_stats that adds one to the periodic counters instead of counting rows
UpdateUserStatsRow_Increments(stats, rows, t, message_length, response_length, fault) ==
    IF fault = "aggregate" THEN stats
    ELSE [exists |-> TRUE,
          total_messages |-> stats.total_messages + 1,
          messages_today |-> stats.messages_today + 1,
          messages_this_week |-> stats.messages_this_week + 1,
          tokens_used |-> stats.tokens_used + message_length + response_length]

\* DatabaseService._update_user_stats with _update_periodic_stats, on the aggregate
\* row of one user whose stored rows are rows: a failure rolls the update back, a
\* failure inside _update_periodic_stats only leaves the two counters as they were
UpdateUserStatsRow(stats, rows, t, message_length, response_length, fault) ==
    IF fault = "aggregate" THEN stats
    ELSE [exists |-> TRUE,
          total_messages |-> stats.total_messages + 1,
          messages_today |-> IF fault = "periodic" THEN stats.messages_today
                             ELSE CountSince(rows, TodayStart(t)),
          messages_this_week |-> IF fault = "periodic" THEN stats.messages_this_week
                                 ELSE CountSince(rows, WeekStart(t)),
          tokens_used |-> stats.tokens_used + message_length + response_length]

\* DatabaseService.log_user_interaction for user rows and aggregate: [rows, stats]
LogUserInteraction(rows, stats, t, message_length, response_length, fault) ==
    IF ~RowCommitted(fault) THEN [rows |-> rows, stats |-> stats]
    ELSE LET committed == Append(rows, Day(t))
         IN [rows |-> committed,
             stats |-> UpdateUserStatsRow(stats, committed, t, message_length,
                                          response_length, fault)]

\* DatabaseService.clear_user_conversation: the rows go, the aggregate stays
ClearUserConversation(rows, fails) == IF fails THEN rows ELSE <<>>

\* len() of the texts of a turn
TextLength(c) == IF c = NoContent THEN 0 ELSE IF c.t = "message" THEN 2 ELSE 3

NoLog == [user |-> 0, fault |-> None, message_length |-> 0, response_length |-> 0]

\* the rows stored per user
interactions == [u \in Users |-> Len(user_interactions[u])]

\* one log_user_interaction call for user u on the rows left in the table
RecordUsage(u, rows, message_length, response_length, fault) ==
    LET r == LogUserInteraction(rows, user_stats[u], now, message_length,
                                response_length, fault)
    IN /\ user_interactions' = [user_interactions EXCEPT ![u] = r.rows]
       /\ user_stats' = [user_stats EXCEPT ![u] = r.stats]
       /\ lastLog' = [user |-> u, fault |-> fault, message_length |-> message_length,
                      response_length |-> response_length]

InitTurn ==
    /\ user_interactions = [u \in Users |-> <<>>]
    /\ user_stats = [u \in Users |-> NoStats]
    /\ lastLog = NoLog
    /\ turn = NoTurn

\* the coroutines the event loop may run at once
Tasks == {1, 2}
\* a coroutine that is not running. slot: which push of its user is its own; seen:
\* the window of its user when it was scheduled; overlapped: it pushed while
\* another append of the same user stood between its push and its trim
NoTask == [pc |-> "idle", user |-> 0, slot |-> 0, seen |-> <<>>, overlapped |-> FALSE]

InitLoop ==
    /\ user_data = [u \in Users |-> NoData]
    /\ conversations = [u \in Users |-> END]
    /\ tasks = [t \in Tasks |-> NoTask]

\* DatabaseService.log_user_interaction called for user u
LogInteraction(u, message_length, response_length, fault) ==
    /\ Len(user_interactions[u]) < MaxRecords
    /\ user_stats[u].total_messages < MaxRecords
    /\ RecordUsage(u, user_interactions[u], message_length, response_length, fault)
    /\ UNCHANGED turn
    /\ UNCHANGED <<routeVars, rateVars, adapterCall, prefVars, loopVars, storeVars>>

\* DatabaseService.clear_user_conversation called for user u
ClearInteractions(u, fails) ==
    /\ user_interactions' = [user_interactions EXCEPT ![u] = ClearUserConversation(@, fails)]
    /\ lastLog' = NoLog
    /\ UNCHANGED <<user_stats, turn>>
    /\ UNCHANGED <<routeVars, rateVars, adapterCall, prefVars, loopVars, storeVars>>

\* the clock passes the next UTC midnight
Midnight ==
    /\ Day(now) < MaxUsageDays
    /\ now' = (Day(now) + 1) * (24 * 3600)
    /\ lastLog' = NoLog
    /\ UNCHANGED <<user_interactions, user_stats, turn>>
    /\ UNCHANGED <<rate_limit, rate_limit_cache, admitted, lastCheck>>
    /\ UNCHANGED <<routeVars, adapterCall, prefVars, loopVars, storeVars>>

\* handle_message returning before the rate limiter: a command, or a message sent
\* while the settings dialogue waits for input
HandleSkipped(u, kind) ==
    /\ turn' = [NoTurn EXCEPT !.user = u, !.kind = kind]
    /\ UNCHANGED <<providers, rate_limit_cache, admitted, conversation, conversation_ttl,
                   pushed, user_interactions, user_stats, lastLog>>

\* handle_message recording the interaction of a rejected message
HandleRejected_Logs(u) ==
    /\ turn' = [NoTurn EXCEPT !.user = u, !.kind = "text", !.logged = TRUE,
                              !.events = <<"rate_limit_check", "rate_limit_notice",
                                           "usage_update">>]
    /\ RecordUsage(u, user_interactions[u], 0, 0, "no")
    /\ UNCHANGED <<providers, rate_limit_cache, admitted, conversation, conversation_ttl,
                   pushed>>

\* handle_message answering with the notice of too many requests
HandleRejected(u) ==
    /\ turn' = [NoTurn EXCEPT !.user = u, !.kind = "text",
                              !.events = <<"rate_limit_check", "rate_limit_notice">>]
    /\ UNCHANGED <<providers, rate_limit_cache, admitted, conversation, conversation_ttl,
                   pushed, user_interactions, user_stats, lastLog>>

\* handle_message replying before it updates the conversation store
HandleAdmitted(u, inp) ==
    LET k == Len(pushed[u]) + 1
        message_text == Content("message", k)
        conversation_history == GetConversationHistory(conversation[u], inp.historyFails)
        messages == PrepareConversationContext(message_text, conversation_history)
        r == GenerateResponse(u, inp.route)
        response == Content(r.text, k)
        routed == <<"rate_limit_check", "typing", "history_load", "route">>
                  \o [i \in DOMAIN r.calls |-> "adapter_call"]
        a == AddToConversationHistory(conversation[u], conversation_ttl[u],
                                      message_text, response, inp.storeFault)
        stored == redis_state = "ready" /\ a.pushed # <<>>
        loaded == redis_state = "ready" /\ ~inp.historyFails
        read_raised == StoreRaises(~loaded)
        add_raised == StoreRaises(redis_state # "ready" \/ inp.storeFault # "no")
    IN /\ rate_limit_cache' = [rate_limit_cache EXCEPT ![u] = RateLimitOutcome(u).requests]
       /\ admitted' = [admitted EXCEPT ![u] = Append(@, now)]
       /\ providers' = r.provs
       /\ IF r.raised \/ inp.replyFails
          THEN /\ turn' = [user |-> u, kind |-> "text", admitted |-> TRUE,
                           events |-> routed \o (IF r.raised THEN <<>> ELSE <<"reply_failed">>)
                                      \o <<"error_reply">>,
                           message |-> message_text, loaded |-> loaded,
                           context |-> messages,
                           response |-> IF r.raised THEN NoContent ELSE response,
                           storeFault |-> inp.storeFault, storeRaised |-> read_raised,
                           appended |-> FALSE, dbFault |-> inp.dbFault,
                           logged |-> FALSE]
               /\ UNCHANGED <<conversation, conversation_ttl, pushed, user_interactions,
                              user_stats, lastLog>>
          ELSE /\ turn' = [user |-> u, kind |-> "text", admitted |-> TRUE,
                           events |-> routed \o <<"reply", "store_update", "usage_update">>
                                      \o (IF UsageRaises(inp.dbFault)
                                          THEN <<"error_reply">> ELSE <<>>),
                           message |-> message_text, loaded |-> loaded,
                           context |-> messages, response |-> response,
                           storeFault |-> inp.storeFault,
                           storeRaised |-> read_raised \/ add_raised,
                           appended |-> stored, dbFault |-> inp.dbFault,
                           logged |-> RowCommitted(inp.dbFault)]
               /\ IF redis_state = "ready"
                  THEN /\ conversation' = [conversation EXCEPT ![u] = a.list]
                       /\ conversation_ttl' = [conversation_ttl EXCEPT ![u] = a.ttl]
                       /\ pushed' = [pushed EXCEPT ![u] =
                                       @ \o [i \in 1..Len(a.pushed) |->
                                               [entry |-> a.pushed[i],
                                                completed |-> inp.storeFault = "no"]]]
                  ELSE UNCHANGED <<conversation, conversation_ttl, pushed>>
               /\ RecordUsage(u, user_interactions[u], TextLength(message_text),
                              TextLength(response), inp.dbFault)

\* CommandHandler.clear_command: clear the cache, delete the user's interaction
\* rows, reply, then log the command
ClearCommand(u, inp) ==
    LET unreachable == redis_state # "ready" \/ inp.cacheFails
        c == ClearConversationHistory(conversation[u], conversation_ttl[u], inp.cacheFails)
        raised == StoreRaises(unreachable)
        rows == ClearUserConversation(user_interactions[u], raised \/ inp.clearFails)
    IN /\ started /\ redis_state # "new" /\ turn = NoTurn /\ last = Idle
       /\ interactions[u] < MaxTurns /\ user_stats[u].total_messages < MaxRecords
       /\ IF redis_state = "ready"
          THEN /\ conversation' = [conversation EXCEPT ![u] = c.list]
               /\ conversation_ttl' = [conversation_ttl EXCEPT ![u] = c.ttl]
               /\ pushed' = [pushed EXCEPT ![u] = IF inp.cacheFails THEN @ ELSE <<>>]
          ELSE UNCHANGED <<conversation, conversation_ttl, pushed>>
       /\ RecordUsage(u, rows, 0, 0, inp.dbFault)
       /\ turn' = [NoTurn EXCEPT
                     !.user = u, !.kind = "clear",
                     !.events = <<"store_clear">>
                                \o (IF raised THEN <<"error_reply">> ELSE <<"db_clear", "reply">>)
                                \o <<"usage_update">>,
                     !.storeFault = IF inp.cacheFails THEN "del" ELSE "no",
                     !.storeRaised = raised,
                     !.dbFault = inp.dbFault,
                     !.logged = RowCommitted(inp.dbFault)]
       /\ UNCHANGED <<started, settings, user_preferences, providers, current_provider, last>>
       /\ UNCHANGED <<rateVars, adapterCall, prefVars, loopVars>>
       /\ UNCHANGED <<max_history, redis_state, lastStore>>

\* the turns admitted so far
AdmittedTurns == Cardinality({c \in Users \X (1..MaxTurns) : c[2] \in DOMAIN admitted[c[1]]})

\* MessageHandler.handle_message for one incoming text of user u
HandleMessage(u, inp) ==
    /\ started /\ redis_state # "new" /\ turn = NoTurn /\ last = Idle
    /\ AdmittedTurns < MaxTurns
    /\ IF inp.kind # "text" THEN HandleSkipped(u, inp.kind)
       ELSE IF ~RateLimitOutcome(u).ok THEN HandleRejected(u)
       ELSE HandleAdmitted(u, inp)
    /\ UNCHANGED <<started, settings, user_preferences, current_provider, last>>
    /\ UNCHANGED <<rate_limit, now, lastCheck, adapterCall, prefVars, loopVars>>
    /\ UNCHANGED <<max_history, redis_state, lastStore>>

\* handle_message has returned to the dispatcher
EndTurn ==
    /\ turn # NoTurn
    /\ turn' = NoTurn
    /\ lastLog' = NoLog
    /\ UNCHANGED <<user_interactions, user_stats>>
    /\ UNCHANGED <<routeVars, rateVars, adapterCall, prefVars, loopVars, storeVars>>

\* SettingsCommandsHandler.start_add_api_key: note the provider and raise the flag,
\* then ask for the key; the conversation moves on only when the handler returns
StartAddApiKey(u, p, editFails) ==
    /\ started /\ last = Idle /\ turn = NoTurn
    /\ conversations[u] = END
    /\ user_data' = [user_data EXCEPT ![u] = [conversation_state |-> "adding_api_key",
                                              adding_provider |-> p]]
    /\ conversations' = [conversations EXCEPT
                           ![u] = IF editFails THEN @ ELSE WAITING_FOR_API_KEY]
    /\ UNCHANGED <<routeVars, rateVars, adapterCall, prefVars, storeVars, turnVars, tasks>>

\* handle_api_key_input finding no provider in user_data: the conversation ends
ApiKeyInputNoProvider(u) ==
    /\ started /\ last = Idle /\ turn = NoTurn
    /\ conversations[u] = WAITING_FOR_API_KEY
    /\ user_data[u].adding_provider = None
    /\ conversations' = [conversations EXCEPT ![u] = END]
    /\ UNCHANGED <<routeVars, rateVars, adapterCall, prefVars, storeVars, turnVars>>
    /\ UNCHANGED <<user_data, tasks>>

\* SettingsCommandsHandler.cancel: drop the flag and the provider, then reply
Cancel(u, replyFails) ==
    /\ started /\ last = Idle /\ turn = NoTurn
    /\ conversations[u] = WAITING_FOR_API_KEY
    /\ user_data' = [user_data EXCEPT ![u] = NoData]
    /\ conversations' = [conversations EXCEPT ![u] = IF replyFails THEN @ ELSE END]
    /\ UNCHANGED <<routeVars, rateVars, adapterCall, prefVars, storeVars, turnVars, tasks>>

\* add_to_conversation_history of a coroutine up to its first await: LPUSH
AppendPush(t, u) ==
    LET k == Len(pushed[u]) + 1
        entry == [timestamp |-> now, user_message |-> Content("message", k),
                  ai_response |-> Content("answer", k)]
    IN /\ redis_state = "ready" /\ tasks[t].pc = "idle" /\ k <= MaxAppends
       /\ conversation' = [conversation EXCEPT ![u] = LPush(@, entry)]
       /\ pushed' = [pushed EXCEPT ![u] = Append(@, [entry |-> entry, completed |-> FALSE])]
       /\ tasks' = [tasks EXCEPT ![t] =
                       [NoTask EXCEPT !.pc = "pushed", !.user = u, !.slot = k,
                                      !.overlapped = \E o \in Tasks \ {t} :
                                                        /\ tasks[o].pc = "pushed"
                                                        /\ tasks[o].user = u]]
       /\ lastStore' = NoStore
       /\ UNCHANGED <<max_history, redis_state, conversation_ttl>>
       /\ UNCHANGED <<routeVars, rateVars, adapterCall, prefVars, turnVars>>
       /\ UNCHANGED <<user_data, conversations>>

\* the coroutine resumed after LPUSH: LTRIM to twice the configured depth
AppendTrim(t) ==
    /\ tasks[t].pc = "pushed"
    /\ conversation' = [conversation EXCEPT
                          ![tasks[t].user] = LTrim(@, 0, max_history * 2 - 1)]
    /\ tasks' = [tasks EXCEPT ![t].pc = "trimmed"]
    /\ UNCHANGED <<max_history, redis_state, conversation_ttl, pushed, lastStore>>
    /\ UNCHANGED <<routeVars, rateVars, adapterCall, prefVars, turnVars>>
    /\ UNCHANGED <<user_data, conversations>>

\* the coroutine resumed after LTRIM: EXPIRE, and the add returns
AppendExpire(t) ==
    /\ tasks[t].pc = "trimmed"
    /\ conversation_ttl' = [conversation_ttl EXCEPT ![tasks[t].user] = now + HISTORY_TTL]
    /\ pushed' = [pushed EXCEPT ![tasks[t].user][tasks[t].slot].completed = TRUE]
    /\ tasks' = [tasks EXCEPT ![t] = [NoTask EXCEPT !.overlapped = tasks[t].overlapped]]
    /\ UNCHANGED <<max_history, redis_state, conversation, lastStore>>
    /\ UNCHANGED <<routeVars, rateVars, adapterCall, prefVars, turnVars>>
    /\ UNCHANGED <<user_data, conversations>>

\* a text of user u arrives: the dispatcher schedules a handle_message coroutine
Dispatch(t, u) ==
    /\ tasks[t].pc = "idle"
    /\ tasks' = [tasks EXCEPT ![t] = [NoTask EXCEPT !.pc = "scheduled", !.user = u,
                                                    !.seen = rate_limit_cache[u]]]
    /\ UNCHANGED <<routeVars, rateVars, adapterCall, prefVars, storeVars, turnVars>>
    /\ UNCHANGED <<user_data, conversations>>

\* _check_rate_limit working on the window the user had when the coroutine was
\* scheduled
UserRequests_Stale(t) == tasks[t].seen

\* self.rate_limit_cache.get(user_id, []): read when _check_rate_limit runs
UserRequests(t) == rate_limit_cache[tasks[t].user]

\* the coroutine runs from the start of handle_message to its first await, which
\* comes after _check_rate_limit has returned: the reply of the notice or the
\* typing indicator
RunCheck(t) ==
    LET u == tasks[t].user
        current_time == now
        minute_ago == current_time - WINDOW
        user_requests == Prune(UserRequests(t), minute_ago)
    IN /\ tasks[t].pc = "scheduled"
       /\ tasks' = [tasks EXCEPT ![t].pc = "awaiting"]
       /\ IF Len(user_requests) >= rate_limit
          THEN /\ lastCheck' = [user |-> u, time |-> current_time, result |-> FALSE]
               /\ UNCHANGED <<rate_limit_cache, admitted>>
          ELSE /\ rate_limit_cache' =
                     [rate_limit_cache EXCEPT ![u] = Append(user_requests, current_time)]
               /\ admitted' = [admitted EXCEPT ![u] = Append(@, current_time)]
               /\ lastCheck' = [user |-> u, time |-> current_time, result |-> TRUE]
       /\ UNCHANGED <<rate_limit, now>>
       /\ UNCHANGED <<routeVars, adapterCall, prefVars, storeVars, turnVars>>
       /\ UNCHANGED <<user_data, conversations>>

\* the rest of handle_message, which does not touch the rate limiter
Resume(t) ==
    /\ tasks[t].pc = "awaiting"
    /\ tasks' = [tasks EXCEPT ![t] = NoTask]
    /\ UNCHANGED <<routeVars, rateVars, adapterCall, prefVars, storeVars, turnVars>>
    /\ UNCHANGED <<user_data, conversations>>

----------------------------------------------------------------------------
(* Specifications *)

\* the backend answers drawn while routing
RouteOutcomes == {o \in Outcomes : \/ o.kind = "ok" /\ o.content = " answer "
                                   \/ o.kind = "error" /\ o.msg \in {{}, {"quota"}}}
\* the draws of random.choice explored while routing
RouteDraws(o) == {1}
RouteInputs == {i \in [storeFails : StoreFailures, constructFails : BOOLEAN,
                       outcome : RouteOutcomes, fb : {1, NumFallbacks}] :
                  i.fb \in RouteDraws(i.outcome)}

NextRoute ==
    \/ \E eo \in BOOLEAN, ec \in BOOLEAN : Initialize(eo, ec)
    \/ \E u \in Users, p \in ProviderNames : \E k \in KeysOf(u) : SetUserApiKey(u, p, k, "no")
    \/ \E u \in Users, p \in ProviderNames : RemoveUserApiKey(u, p, "no")
    \/ \E u \in Users, p \in ProviderNames : SetUserProvider(u, p)
    \/ \E u \in Users, p \in ProviderNames, m \in SessionModels, o \in RouteOutcomes :
          \E fb \in RouteDraws(o), fb2 \in RouteDraws(o) :
             SetSessionProvider(u, p, m, o, fb, fb2)
    \/ \E u \in Users, inp \in RouteInputs : Generate(u, inp)
    \/ Reply

\* the state after construction, with the smallest ceiling configured
InitFixed ==
    /\ InitRoute /\ InitRate /\ rate_limit = 1 /\ adapterCall = NoCall
    /\ InitStore /\ max_history = 1 /\ InitTurn /\ InitLoop

\* the state after construction, for every configured ceiling
Init ==
    /\ InitRoute /\ InitRate /\ adapterCall = NoCall
    /\ InitStore /\ max_history = 1 /\ InitTurn /\ InitLoop

\* the conversation store alone, for every configured depth
InitDepth ==
    /\ InitRoute /\ InitRate /\ rate_limit = 1 /\ adapterCall = NoCall
    /\ InitStore /\ InitTurn /\ InitLoop

NextStore ==
    \/ \E ok \in BOOLEAN : RedisInitialize(ok)
    \/ \E u \in Users, fault \in StoreFaults : AddTurn(u, fault)
    \/ \E u \in Users, fails \in BOOLEAN : GetHistory(u, fails)
    \/ \E u \in Users, fails \in BOOLEAN : ClearHistory(u, fails)

SpecStore == InitDepth /\ [][NextStore]_vars

\* the conversation store over days
NextExpiry ==
    \/ \E ok \in BOOLEAN : StartRedis(ok)
    \/ \E u \in Users : AddTurn(u, "no")
    \/ AddTurn(1, "expire")
    \/ \E d \in Lifetimes : Elapse(d)

SpecExpiry == InitFixed /\ [][NextExpiry]_vars

\* the answers and faults drawn during a turn
TurnRoutes == {i \in RouteInputs : /\ i.storeFails = "no" /\ ~i.constructFails
                                   /\ i.outcome.kind = "ok"}
TurnInputs ==
    [kind : {"text"}, route : TurnRoutes, historyFails : BOOLEAN,
     storeFault : {"no", "lpush"}, replyFails : BOOLEAN, dbFault : {"no", "insert"}]
    \cup [kind : {"command", "wizard"}, route : TurnRoutes, historyFails : {FALSE},
          storeFault : {"no"}, replyFails : {FALSE}, dbFault : {"no"}]

NextTurn ==
    \/ \E ok \in BOOLEAN : StartRedis(ok)
    \/ \E eo \in BOOLEAN, ec \in BOOLEAN : Initialize(eo, ec)
    \/ \E u \in Users, o \in {x \in RouteOutcomes : x.kind = "ok"} :
          SetSessionProvider(u, "openai", None, o, 1, 1)
    \/ \E u \in Users, inp \in TurnInputs : HandleMessage(u, inp)
    \/ EndTurn
    \/ Tick(WINDOW)

SpecTurn == InitFixed /\ [][NextTurn]_vars

\* the faults of the cache and of the database drawn during a turn
FaultInputs ==
    [kind : {"text"}, route : TurnRoutes, historyFails : BOOLEAN,
     storeFault : StoreFaults, replyFails : BOOLEAN, dbFault : DbFaults]

NextFaults ==
    \/ \E ok \in BOOLEAN : StartRedis(ok)
    \/ \E eo \in BOOLEAN, ec \in BOOLEAN : Initialize(eo, ec)
    \/ \E inp \in FaultInputs : HandleMessage(1, inp)
    \/ \E inp \in [cacheFails : BOOLEAN, clearFails : BOOLEAN,
                    dbFault : {"no", "insert"}] : ClearCommand(1, inp)
    \/ EndTurn
    \/ Tick(WINDOW)

\* Turns and clear commands under faults of the cache and of the database
SpecFaults == InitFixed /\ [][NextFaults]_vars

\* the lengths log_user_interaction is called with
Lengths == {0, 2}

NextUsage ==
    \/ \E message_length \in Lengths, fault \in DbFaults :
          LogInteraction(1, message_length, 3, fault)
    \/ \E fails \in BOOLEAN : ClearInteractions(1, fails)
    \/ Midnight

\* Usage recorder: records and clears of the users as the days pass
SpecUsage == InitFixed /\ [][NextUsage]_vars

\* generate_response reached with a working cache and backend
PrefRoutes == {i \in RouteInputs : /\ i.storeFails = "no" /\ ~i.constructFails
                                   /\ i.outcome.kind = "ok" /\ i.outcome.content = " answer "}

NextPrefs ==
    \/ \E eo \in BOOLEAN, ec \in BOOLEAN : Initialize(eo, ec)
    \/ \E p \in ProviderNames, k \in TypedKeys(1), fault \in SaveFaults :
          SetUserApiKey(1, p, k, fault)
    \/ \E p \in ProviderNames, fault \in SaveFaults : RemoveUserApiKey(1, p, fault)
    \/ \E fault \in SaveFaults :
          \/ \E p \in ProviderNames : SetUserPreference(1, "provider", p, fault)
          \/ SetUserPreference(1, "model", "gpt-4", fault)
    \/ \E fault \in SaveFaults : DeleteUserData(1, fault)
    \/ \E fault \in SaveFaults : UpdateUserStats(1, 1, fault)
    \/ \E p \in ProviderNames, k \in TypedKeys(1), test_result \in BOOLEAN :
          \E fault \in SaveFaults, fault2 \in SaveFaults :
             HandleApiKeyInput(1, p, k, test_result, fault, fault2)
    \/ \E inp \in PrefRoutes : Generate(1, inp)
    \/ Reply

\* Preference store: the mutations of one user, their saves, and routing on the result
SpecPrefs == InitFixed /\ [][NextPrefs]_vars

\* Routing: startup, preference mutations and generate_response calls
SpecRoute == InitFixed /\ [][NextRoute]_vars

NextRate ==
    \/ \E u \in Users : CheckRateLimit(u)
    \/ \E d \in TimeSteps : Tick(d)

\* Rate limiter: checks of the users as time passes
SpecRate == Init /\ [][NextRate]_vars

NextAdapter ==
    \E name \in ProviderNames, o \in Outcomes, fb \in 1..NumFallbacks :
        AdapterGenerate(name, o, fb)

\* Adapters: every backend outcome for each adapter
SpecAdapter == InitFixed /\ [][NextAdapter]_vars

NextClaude == \E messages \in MessageLists : ClaudeBuildRequest(messages)

\* Claude adapter: the request built for every list of messages
SpecClaude == InitFixed /\ [][NextClaude]_vars

NextAppend ==
    \/ \E ok \in BOOLEAN : StartRedis(ok)
    \/ \E t \in Tasks, u \in Users : AppendPush(t, u)
    \/ \E t \in Tasks : AppendTrim(t)
    \/ \E t \in Tasks : AppendExpire(t)

\* Conversation store: the appends of two coroutines interleaved at their awaits
SpecAppend == InitFixed /\ [][NextAppend]_vars

NextLoop ==
    \/ \E t \in Tasks : Dispatch(t, 1)
    \/ \E t \in Tasks : RunCheck(t)
    \/ \E t \in Tasks : Resume(t)
    \/ \E d \in TimeSteps : Tick(d)

\* Rate limiter: the handle_message coroutines of one user interleaved
SpecLoop == Init /\ [][NextLoop]_vars

\* a text of user u reaches handle_message with the flag as the dialogue left it
SettingsInputs(u) ==
    {i \in TurnInputs : /\ i.kind # "command" /\ ~i.historyFails /\ ~i.replyFails
                        /\ i.storeFault = "no" /\ i.dbFault = "no"
                        /\ (i.kind = "wizard") <=> (user_data[u].conversation_state # None)}

\* the settings conversation is registered before handle_message: while it waits
\* for a user's key it takes that user's texts and /cancel
NextSettings ==
    \/ StartRedis(TRUE)
    \/ \E eo \in BOOLEAN, ec \in BOOLEAN : Initialize(eo, ec)
    \/ \E u \in Users, p \in ProviderNames, editFails \in BOOLEAN :
          StartAddApiKey(u, p, editFails)
    \/ \E u \in {v \in Users : conversations[v] = WAITING_FOR_API_KEY} :
          \E p \in {user_data[u].adding_provider} \cap ProviderNames :
             \E k \in TypedKeys(u), test_result \in BOOLEAN :
                HandleApiKeyInput(u, p, k, test_result, "no", "no")
    \/ \E u \in Users : ApiKeyInputNoProvider(u)
    \/ \E u \in Users, replyFails \in BOOLEAN : Cancel(u, replyFails)
    \/ \E u \in {v \in Users : conversations[v] = END} :
          \E inp \in SettingsInputs(u) : HandleMessage(u, inp)
    \/ EndTurn

\* Settings dialogue: the key entry conversation next to the message handler
SpecSettings == InitFixed /\ [][NextSettings]_vars

----------------------------------------------------------------------------
(* Claims about routing.  last is the generate_response call that has just  *)
(* returned; the preference store is as the call found it, because nothing  *)
(* else runs until the caller has taken the text.                           *)

Called == last # Idle
Requester == last.user
\* the store lookups of the call returned (the catch-all was not reached)
LookedUp == Called /\ last.path # "error"
Selected == settings[Requester].provider
Override == user_preferences[Requester].provider
HasKey(name) == settings[Requester].api_keys[name] # NoKey
OwnAdapter(name) == UserAdapter(name, settings[Requester].api_keys[name])
Registered == {p \in ProviderNames : providers[p] # NoAdapter}
\* the registered adapter for name, whatever model a session override put on it
IsRegisteredAdapter(a, name) == a.shared /\ a.name = name /\ a.api_key = EnvKey(name)

\* C1 (as stated): whenever the user has a stored selected provider P and a stored
\* credential for P, the call invokes an adapter for P built from that credential.
C1_AsStated ==
    (LookedUp /\ Selected # None /\ HasKey(Selected))
        => last.calls = <<OwnAdapter(Selected)>>

\* C1 (amended): with a stored selected provider P and a stored credential for P,
\* the call invokes exactly one adapter: the one built from the user's credential
\* when its construction succeeds, whatever the default or the session override;
\* when the construction raises, the registered adapter for P if there is one.
C1_StoredProviderWins ==
    (LookedUp /\ Selected # None /\ HasKey(Selected))
        => /\ ~last.cfail => /\ last.calls = <<OwnAdapter(Selected)>>
                             /\ last.path = "stored"
           /\ (last.cfail /\ Selected \in Registered)
                 => /\ Len(last.calls) = 1
                    /\ IsRegisteredAdapter(last.calls[1], Selected)
                    /\ last.path = "stored"

\* C1 witness: the user's own adapter was used although another provider is both
\* the process-wide default and the user's session override.
C1_Witness ==
    /\ LookedUp /\ Selected # None /\ HasKey(Selected)
    /\ last.calls = <<OwnAdapter(Selected)>>
    /\ current_provider \notin {None, Selected}
    /\ Override \notin {None, Selected}

\* C2: when the stored selected provider P has no stored credential, no adapter for P
\* is invoked at step 1 (the call is served by the session override or the default),
\* and no credential stored by another user is used.
C2_FailClosed ==
    (LookedUp /\ Selected # None /\ ~HasKey(Selected))
        => /\ last.path # "stored"
           /\ \A i \in DOMAIN last.calls : last.calls[i].api_key.owner \in {0, Requester}

\* C3: a call served by the session override for P uses the registered adapter for P
\* with the registered credential, never one built from the user's stored credential.
C3_SessionUsesRegistered ==
    (LookedUp /\ last.path = "session")
        => /\ Len(last.calls) = 1
           /\ IsRegisteredAdapter(last.calls[1], Override)

\* C4: after a startup that registered at least one backend a default adapter is
\* designated, so a user without stored preference and without session override is
\* served by it and not by the 'no backend' text.
C4_DefaultDesignated ==
    /\ (started /\ Registered # {}) => current_provider # None
    /\ (LookedUp /\ Registered # {} /\ Selected = None /\ Override = None)
          => (last.path = "default" /\ last.text # UNAVAILABLE)

\* step 1 or 2 yields an adapter for name: a registered one, or one built from the
\* user's credential
Yields(name) ==
    /\ name # None
    /\ \/ name \in Registered
       \/ HasKey(name) /\ ~last.cfail

NoneResolvable == ~Yields(Selected) /\ ~Yields(Override) /\ current_provider = None

\* C5: exactly when none of the three steps yields an adapter, the call returns the
\* fixed 'service unavailable' text, and then it has invoked no adapter.
C5_NoBackend ==
    LookedUp => /\ NoneResolvable <=> last.text = UNAVAILABLE
                /\ NoneResolvable => (last.calls = <<>> /\ last.path = "none")

\* C5 witness: a user whose selected provider is neither registered nor backed by a
\* credential gets the fixed text.
C5_Witness ==
    /\ LookedUp /\ Selected # None /\ NoneResolvable
    /\ last.text = UNAVAILABLE

\* every text generate_response can return
Texts == {UNAVAILABLE, APOLOGY, CONTEXT_NOTICE} \cup FallbackSet
         \cup {Strip(c) : c \in Contents}
         \cup UNION {{QuotaNotice(p), KeyNotice(p), RateNotice(p)} : p \in ProviderNames}

\* C6: every call returns a text and propagates no exception; a call in which a
\* lookup raised returns the generic apology.
C6_NeverRaises ==
    Called => /\ ~last.raised
              /\ last.text \in Texts
              /\ last.path = "error" => last.text = APOLOGY

\* C6 witness: a store lookup raised and the caller got the apology.
C6_Witness == Called /\ last.path = "error" /\ last.text = APOLOGY /\ ~last.raised

\* C8: one call of generate_response issues at most one adapter call, and a step
\* whose adapter answered with a failure notice is not followed by a lower step.
C8_NoRetry ==
    Called => /\ Len(last.calls) <= 1
              /\ last.path = "stored" => last.calls[1].name = Selected

\* C8 witness: the adapter of step 1 returned a failure notice while a session
\* override and a default were available, and nothing else was called.
C8_Witness ==
    /\ Called /\ last.path = "stored" /\ Len(last.calls) = 1
    /\ last.text \in FallbackSet \cup {QuotaNotice(Selected)}
    /\ Override # None /\ current_provider # None

----------------------------------------------------------------------------
(* Claims about the adapters *)

AdapterCalled == adapterCall # NoCall
Has(tok) == tok \in adapterCall.outcome.msg
IsQuota == Has("insufficient_quota") \/ Has("quota")
IsKey == Has("invalid_api_key") \/ Has("authentication")
IsRate == Has("rate_limit")
IsContext == Has("context_length")

\* C7: an adapter never raises; a failed backend call yields the quota, the
\* invalid-credential, the rate-limited or the context-too-long notice, the first of
\* these classes (in that order) the error belongs to; the four notices are pairwise
\* distinct; any other failure yields one of the generic notices.
C7_Classification ==
    (AdapterCalled /\ adapterCall.outcome.kind # "ok") =>
        LET n == adapterCall.name
            t == adapterCall.text
        IN /\ ~adapterCall.raised
           /\ Cardinality({QuotaNotice(n), KeyNotice(n), RateNotice(n), CONTEXT_NOTICE}) = 4
           /\ IsQuota => t = QuotaNotice(n)
           /\ (~IsQuota /\ IsKey) => t = KeyNotice(n)
           /\ (~IsQuota /\ ~IsKey /\ IsRate) => t = RateNotice(n)
           /\ (~IsQuota /\ ~IsKey /\ ~IsRate /\ IsContext) => t = CONTEXT_NOTICE
           /\ (~IsQuota /\ ~IsKey /\ ~IsRate /\ ~IsContext) => t \in FallbackSet

\* C7 witness: an error that is both a rate-limit and a context-length error was
\* reported as rate-limited.
C7_Witness ==
    /\ AdapterCalled /\ adapterCall.outcome.kind = "error"
    /\ IsRate /\ IsContext /\ ~IsQuota /\ ~IsKey
    /\ adapterCall.text = RateNotice(adapterCall.name)

----------------------------------------------------------------------------
(* Claims about the rate limiter *)

Checked == lastCheck # NoCheck
\* the admitted calls of the checked user in the 60 seconds ending with the check,
\* the check itself included when it was admitted
InWindow ==
    {i \in DOMAIN admitted[lastCheck.user] :
        admitted[lastCheck.user][i] > lastCheck.time - WINDOW}

\* C9: a check is admitted exactly when fewer than the ceiling calls of the user were
\* admitted in the 60 seconds before it: no rolling window holds more than the
\* ceiling, a rejection means the window is full, and calls are admitted again as
\* soon as the oldest one has left the window.
C9_RateCeiling ==
    Checked => /\ lastCheck.result => Cardinality(InWindow) <= rate_limit
               /\ ~lastCheck.result => Cardinality(InWindow) = rate_limit

\* C9 witness: a call was admitted after the window had been full, because the
\* oldest admitted call had left it.
C9_Witness ==
    /\ Checked /\ lastCheck.result
    /\ Len(admitted[lastCheck.user]) > rate_limit
    /\ Cardinality(InWindow) = rate_limit

\* C10: right after a check for a user, admitted or not, the window stored for the
\* user holds no timestamp older than 60 seconds before the check.
C10_WindowFresh ==
    Checked => \A i \in DOMAIN rate_limit_cache[lastCheck.user] :
                  rate_limit_cache[lastCheck.user][i] >= lastCheck.time - WINDOW

\* C10 witness: a check was rejected after an earlier timestamp of the user had
\* expired, and the stored window holds only fresh ones.
C10_Witness ==
    /\ Checked /\ ~lastCheck.result
    /\ Len(admitted[lastCheck.user]) > Len(rate_limit_cache[lastCheck.user])
    /\ \A i \in DOMAIN rate_limit_cache[lastCheck.user] :
          rate_limit_cache[lastCheck.user][i] >= lastCheck.time - WINDOW

\* how many times the timestamp t occurs in the window s
Occurrences(s, t) == Cardinality({i \in DOMAIN s : s[i] = t})

\* C11: a check that is rejected leaves every stored window as it was, so a rejected
\* call is not recorded; a check that is admitted adds the time of the call to the
\* window of the calling user once, adds no other timestamp, and touches no other
\* user's window.
C11_RejectNotRecorded ==
    [][lastCheck' # NoCheck =>
          LET u == lastCheck'.user
              t == lastCheck'.time
          IN /\ \A v \in Users \ {u} : rate_limit_cache'[v] = rate_limit_cache[v]
             /\ ~lastCheck'.result => rate_limit_cache' = rate_limit_cache
             /\ lastCheck'.result =>
                  /\ Occurrences(rate_limit_cache'[u], t)
                       = Occurrences(rate_limit_cache[u], t) + 1
                  /\ \A i \in DOMAIN rate_limit_cache'[u] :
                        rate_limit_cache'[u][i] # t =>
                            Occurrences(rate_limit_cache'[u], rate_limit_cache'[u][i])
                               <= Occurrences(rate_limit_cache[u], rate_limit_cache'[u][i])]_vars

\* C11 witness: a call was rejected at a time that is not in the stored window of
\* the user, although the user has admitted calls in the window.
C11_Witness ==
    /\ Checked /\ ~lastCheck.result
    /\ rate_limit_cache[lastCheck.user] # <<>>
    /\ Occurrences(rate_limit_cache[lastCheck.user], lastCheck.time) = 0

\* the calls of the checked user admitted before the check
PriorAdmitted ==
    IF lastCheck.result
    THEN SubSeq(admitted[lastCheck.user], 1, Len(admitted[lastCheck.user]) - 1)
    ELSE admitted[lastCheck.user]

\* the earlier admitted calls that are at most 60 seconds old at the check
ClosedWindow == {i \in DOMAIN PriorAdmitted : PriorAdmitted[i] >= lastCheck.time - WINDOW}

\* an earlier call of the user was admitted exactly 60 seconds before the check
AtBoundary == \E i \in DOMAIN PriorAdmitted : PriorAdmitted[i] = lastCheck.time - WINDOW

\* C12: a timestamp exactly 60 seconds old counts as expired: a call that arrives
\* exactly 60 seconds after an admitted call of the user, when no more than the
\* ceiling calls were admitted in those 60 seconds (both ends included), is admitted.
C12_BoundaryExpired ==
    (Checked /\ AtBoundary /\ Cardinality(ClosedWindow) <= rate_limit) => lastCheck.result

\* C12 witness: the window was full, its oldest call was exactly 60 seconds old,
\* and the call was admitted.
C12_Witness ==
    /\ Checked /\ lastCheck.result /\ AtBoundary
    /\ Cardinality(ClosedWindow) = rate_limit
    /\ \A i \in DOMAIN PriorAdmitted : PriorAdmitted[i] >= lastCheck.time - WINDOW

----------------------------------------------------------------------------
(* Claims about the conversation store.  lastStore is the RedisClient call  *)
(* that has just returned; pushed is what was pushed since the last clear.  *)

Read == lastStore.op = "get" /\ lastStore.completed
Reader == lastStore.user
\* the turn most recently pushed for the reader
Newest == pushed[Reader][Len(pushed[Reader])].entry
\* every add of the reader since the last clear ran push, trim and expire
AllCompleted == \A i \in DOMAIN pushed[Reader] : pushed[Reader][i].completed

\* C14: a read that succeeds returns the stored turns oldest first, each turn as its
\* user message followed by its assistant message, so that the last two messages
\* returned are the turn appended most recently.
C14_OldestFirst ==
    (Read /\ pushed[Reader] # <<>>) =>
        LET r == lastStore.result IN
        /\ Len(r) >= 2
        /\ r[Len(r) - 1] = [role |-> "user", content |-> Newest.user_message]
        /\ r[Len(r)] = [role |-> "assistant", content |-> Newest.ai_response]
        /\ \A i \in DOMAIN r : r[i].role = IF i % 2 = 1 THEN "user" ELSE "assistant"
        /\ \A i, j \in DOMAIN r : i < j => r[i].content.n <= r[j].content.n

\* C15: after more completed appends than the configured depth D, with no clear in
\* between, a read returns exactly 2*D messages: those of the D most recent turns.
C15_ReadDepth ==
    (Read /\ AllCompleted /\ Len(pushed[Reader]) > max_history) =>
        LET r == lastStore.result
            N == Len(pushed[Reader])
        IN /\ Len(r) = 2 * max_history
           /\ {r[i].content.n : i \in DOMAIN r} = (N - max_history + 1)..N

Added == lastStore.op = "add" /\ lastStore.completed

----------------------------------------------------------------------------
(* Claims about a turn.  turn is the handle_message call that has just      *)
(* returned; the stores are as the call left them.                          *)

Turned == turn # NoTurn /\ turn.kind = "text"
Rejected == Turned /\ ~turn.admitted
Happened(e) == \E i \in DOMAIN turn.events : turn.events[i] = e
\* every e of the turn comes before every f
Before(e, f) ==
    \A i, j \in DOMAIN turn.events :
        (turn.events[i] = e /\ turn.events[j] = f) => i < j

\* C13: a turn that the rate limiter rejects invokes no adapter, appends nothing to
\* the conversation store and records no usage interaction.
C13_RejectedTurnIsInert ==
    [][(turn' # NoTurn /\ turn'.kind = "text" /\ ~turn'.admitted) =>
          /\ \A i \in DOMAIN turn'.events :
                turn'.events[i] \notin {"route", "adapter_call", "store_update",
                                       "usage_update"}
          /\ providers' = providers
          /\ conversation' = conversation /\ pushed' = pushed
          /\ interactions' = interactions]_vars

\* C13 witness: a message was rejected while the window of its sender was full.
C13_Witness ==
    /\ Rejected
    /\ Len(rate_limit_cache[turn.user]) = rate_limit
    /\ Happened("rate_limit_notice")

\* the turns pushed for the sender before the turn that has just returned
PriorTurns ==
    LET all == pushed[turn.user]
    IN IF turn.appended THEN SubSeq(all, 1, Len(all) - 1) ELSE all

\* their messages in the order they were exchanged
Chronology == Messages([i \in DOMAIN PriorTurns |-> PriorTurns[i].entry])

\* the last k messages of the chronology
MostRecent(k) ==
    IF Len(Chronology) > k
    THEN SubSeq(Chronology, Len(Chronology) - k + 1, Len(Chronology))
    ELSE Chronology

\* C17: the context handed to routing is the system preamble, then the most recent
\* stored messages, at most the configured depth of them and in the order they were
\* exchanged, then the new user message; when more is stored than the depth, the
\* newest messages are kept.
C17_ContextWindow ==
    (Turned /\ turn.admitted /\ turn.loaded) =>
        turn.context = <<[role |-> "system", content |-> SYSTEM_PROMPT]>>
                       \o MostRecent(max_history)
                       \o <<[role |-> "user", content |-> turn.message]>>

\* C18: the context of every admitted turn starts with the system preamble made
\* for that call and ends with the new user message, and no stored entry is a
\* system message: an entry holds a user message and an assistant message only.
C18_PreambleFirst ==
    /\ (Turned /\ turn.admitted) =>
          /\ turn.context[1] = [role |-> "system", content |-> SYSTEM_PROMPT]
          /\ turn.context[Len(turn.context)] = [role |-> "user", content |-> turn.message]
    /\ \A u \in Users :
          /\ \A i \in DOMAIN conversation[u] :
                /\ DOMAIN conversation[u][i] = {"timestamp", "user_message", "ai_response"}
                /\ conversation[u][i].user_message # SYSTEM_PROMPT
                /\ conversation[u][i].ai_response # SYSTEM_PROMPT
          /\ \A i \in DOMAIN Messages(conversation[u]) :
                Messages(conversation[u])[i].role \in {"user", "assistant"}

\* C18 witness: an admitted turn whose context carries stored history between the
\* preamble and the new message, and whose pair was stored.
C18_Witness ==
    /\ Turned /\ turn.admitted /\ turn.appended
    /\ Len(turn.context) > 2
    /\ turn.context[1].role = "system"

\* C19: whenever a message is admitted and routing returns a text, the pair of
\* message and text is appended to the sender's conversation store (the store being
\* reachable and its commands succeeding), whatever happens later in the turn.
C19_AlwaysAppended ==
    (Turned /\ turn.admitted /\ turn.response # NoContent
        /\ redis_state = "ready" /\ turn.storeFault = "no") =>
        /\ turn.appended
        /\ conversation[turn.user] # <<>>
        /\ conversation[turn.user][1].user_message = turn.message
        /\ conversation[turn.user][1].ai_response = turn.response

\* C20: in an admitted turn the steps come in the order rate-limit check, history
\* load, adapter call, conversation store update, usage update, and the reply is
\* sent only after all of them.
C20_ReplyLast ==
    (Turned /\ turn.admitted /\ Happened("reply")) =>
        /\ Before("rate_limit_check", "history_load")
        /\ Before("history_load", "adapter_call")
        /\ Before("adapter_call", "store_update")
        /\ Before("store_update", "usage_update")
        /\ Happened("store_update") /\ Happened("usage_update")
        /\ Before("store_update", "reply")
        /\ Before("usage_update", "reply")

\* C21: a clear that reaches the cache leaves the user's history empty whatever it
\* held, a read that follows it with no append in between returns the empty
\* sequence, and clearing an empty history changes nothing and leaves it empty.
C21_ClearThenRead ==
    [][/\ (lastStore'.op = "clear" /\ lastStore'.completed) =>
             /\ conversation'[lastStore'.user] = <<>>
             /\ Messages(LRange(conversation'[lastStore'.user], 0, -1)) = <<>>
             /\ conversation[lastStore'.user] = <<>> =>
                   /\ conversation' = conversation
                   /\ conversation_ttl' = conversation_ttl
       /\ (/\ lastStore.op = "clear" /\ lastStore.completed
           /\ lastStore'.op = "get" /\ lastStore'.completed
           /\ lastStore'.user = lastStore.user) => lastStore'.result = <<>>]_vars

\* C21 witness: a clear has just removed a history that held entries.
C21_Witness ==
    /\ lastStore.op = "clear" /\ lastStore.completed
    /\ lastStore.deleted = 1
    /\ conversation[lastStore.user] = <<>>

\* C23: RedisClient.initialize never raises; when the server cannot be reached
\* the client is left not initialized, and in that state every conversation
\* operation degrades (nothing stored, nothing read, nothing raised); on a client
\* that is already initialized it changes nothing.
C23_InitializeOptional ==
    [][/\ lastStore'.op = "initialize" =>
             /\ ~lastStore'.raised
             /\ ~lastStore'.completed => redis_state' = "down"
             /\ redis_state = "ready" => redis_state' = "ready"
             /\ <<conversation, conversation_ttl, pushed>>'
                   = <<conversation, conversation_ttl, pushed>>
       /\ (redis_state = "down" /\ lastStore'.op \in {"add", "get", "clear"}) =>
             /\ ~lastStore'.raised /\ ~lastStore'.completed
             /\ lastStore'.result = <<>>
             /\ <<conversation, conversation_ttl, pushed>>'
                   = <<conversation, conversation_ttl, pushed>>]_vars

\* C23 witness: initialize has returned on a client that was already initialized,
\* because entries had been stored through it.
C23_Witness ==
    /\ lastStore.op = "initialize" /\ lastStore.completed
    /\ redis_state = "ready"
    /\ \E u \in Users : conversation[u] # <<>>

----------------------------------------------------------------------------
(* Claims about the expiry of the conversation store *)

\* the add that pushed last for user u ran to its end
LastAddCompleted(u) == pushed[u] # <<>> /\ pushed[u][Len(pushed[u])].completed
LastAddTime(u) == pushed[u][Len(pushed[u])].entry.timestamp

\* C24: every add that ran to its end sets the expiry of the user's whole history
\* to 24 hours after that add: the history is there as long as less than 24 hours
\* have passed since the last add and is gone once they have passed, however old
\* its other entries are.
C24_ExpiryReset ==
    \A u \in Users :
        LastAddCompleted(u) =>
            /\ conversation[u] # <<>> <=> now < LastAddTime(u) + HISTORY_TTL
            /\ conversation[u] # <<>> =>
                  /\ conversation_ttl[u] = LastAddTime(u) + HISTORY_TTL
                  /\ conversation[u][1] = pushed[u][Len(pushed[u])].entry

\* C24 witness: a history still holds an entry written 24 hours ago or earlier,
\* because a later add moved the expiry.
C24_Witness ==
    \E u \in Users :
        /\ LastAddCompleted(u)
        /\ \E i \in DOMAIN conversation[u] :
              now >= conversation[u][i].timestamp + HISTORY_TTL


\* the turn or clear command that returns in this step
Returning == turn = NoTurn /\ turn' # NoTurn /\ (turn'.kind = "clear" \/ turn'.admitted)
\* the cache is down or the first command the operation sends fails
AppendUnreachable == redis_state = "down" \/ turn'.storeFault = "lpush"
ClearUnreachable == redis_state = "down" \/ turn'.storeFault = "del"
StoreUntouched ==
    /\ conversation' = conversation
    /\ conversation_ttl' = conversation_ttl
    /\ pushed' = pushed

\* C22: when the cache is unreachable (never initialised, or a command fails), no
\* operation of the conversation store raises: a read that fails gives the empty
\* history, so the context is the preamble and the message; an append or a clear
\* whose cache cannot be reached changes nothing; and the message turn, or the clear
\* command, still completes with its reply unless sending the reply itself failed.
C22_CacheUnreachable ==
    [][Returning =>
        /\ ~turn'.storeRaised
        /\ turn'.kind = "text" =>
             /\ ~turn'.loaded =>
                  turn'.context = PrepareConversationContext(turn'.message, <<>>)
             /\ redis_state = "down" => ~turn'.loaded
             /\ AppendUnreachable => ~turn'.appended /\ StoreUntouched
             /\ (\A i \in DOMAIN turn'.events : turn'.events[i] # "reply_failed") =>
                  /\ \E i \in DOMAIN turn'.events : turn'.events[i] = "reply"
                  /\ \A i \in DOMAIN turn'.events : turn'.events[i] # "error_reply"
        /\ turn'.kind = "clear" =>
             /\ ClearUnreachable => StoreUntouched
             /\ \E i \in DOMAIN turn'.events : turn'.events[i] = "reply"
             /\ \A i \in DOMAIN turn'.events : turn'.events[i] # "error_reply"]_vars

\* an admitted message answered while the cache was never initialised
C22_Witness ==
    /\ Turned /\ turn.admitted
    /\ redis_state = "down"
    /\ ~turn.loaded /\ ~turn.appended
    /\ Len(turn.context) = 2
    /\ Happened("reply")


\* the usage log of the returning turn ran against a failing database
UsageFailed ==
    /\ turn'.dbFault \in DbFaults \ {"no"}
    /\ \E i \in DOMAIN turn'.events : turn'.events[i] = "usage_update"

\* C30: recording usage is best effort: whichever way the database fails (not
\* initialised, the insert of the row fails, the update of the aggregate fails), the
\* failure does not reach the handler (no error reply follows), the reply has been
\* sent, and the reply of a message turn is the text routing returned.
C30_UsageBestEffort ==
    [][(Returning /\ UsageFailed) =>
        /\ \E i \in DOMAIN turn'.events : turn'.events[i] = "reply"
        /\ \A i \in DOMAIN turn'.events : turn'.events[i] # "error_reply"
        /\ turn'.kind = "text" =>
             \E route \in TurnRoutes :
                LET r == GenerateResponse(turn'.user, route)
                IN ~r.raised /\ turn'.response = Content(r.text, Len(pushed[turn'.user]) + 1)
        /\ turn'.logged = RowCommitted(turn'.dbFault)
        /\ interactions'[turn'.user] <= interactions[turn'.user] + 1]_vars

\* a message answered although the insert of its interaction row failed
C30_Witness ==
    /\ Turned /\ turn.admitted
    /\ turn.dbFault = "insert" /\ ~turn.logged
    /\ Happened("reply") /\ Happened("usage_update")
    /\ turn.response # NoContent


\* C25: a credential set for a provider is what get_user_api_keys gives for it, in
\* the store as the mutations left it and after any further set; a removed
\* credential is no longer in the mapping; setting twice keeps the second value.
C25_CredentialRoundTrip ==
    \A u \in Users, p \in ProviderNames :
        /\ get_user_api_keys(settings, u)[p] = lastWrite[u].api_keys[p]
        /\ get_user_api_keys(remove_user_api_key(settings, u, p), u)[p] = NoKey
        /\ \A k \in TypedKeys(u), k2 \in TypedKeys(u) :
             LET s1 == set_user_api_key(settings, u, p, k) IN
             /\ get_user_api_keys(s1, u)[p] = k
             /\ get_user_api_keys(remove_user_api_key(s1, u, p), u)[p] = NoKey
             /\ get_user_api_keys(set_user_api_key(s1, u, p, k2), u)[p] = k2

\* one credential was replaced by a later one, the other one was removed
C25_Witness ==
    /\ "api_keys" \in settings[1].sections
    /\ lastWrite[1].api_keys["openai"].v \in BadValues
    /\ get_user_api_keys(settings, 1)["openai"].v \in BadValues
    /\ get_user_api_keys(settings, 1)["claude"] = NoKey

\* C26: whenever a mutation of the preference store has returned, loading the
\* persisted document gives the in-memory store.
C26_WriteThrough == LoadSettings(settings_file) = settings

\* C27: whatever the order in which the requests' mutations ran, every field of
\* every user holds the value last written to it; writing one field leaves the
\* others as they were last written.
C27_LastWriteWins == \A u \in Users : Fields(settings[u]) = lastWrite[u]

\* a credential, the provider, the model and the statistics were written by
\* different mutations and all four are in the store
C27_Witness ==
    /\ settings[1].api_keys["openai"] # NoKey
    /\ settings[1].provider = "claude"
    /\ settings[1].model = "gpt-4"
    /\ settings[1].stats = 1
    /\ settings[1].sections = {"api_keys", "preferences", "stats"}

\* C28: a credential without the provider's prefix fails validate_config, and no
\* adapter that generate_response has invoked was built from such a credential.
C28_InvalidNeverInvoked ==
    /\ \A u \in Users, p \in ProviderNames : \A k \in TypedKeys(u) :
          k.v \in BadValues => ~validate_config(UserAdapter(p, k))
    /\ \A i \in DOMAIN last.calls : validate_config(last.calls[i])

\* the draws of random.choice test_provider is examined with
TestDraws == {1, NumFallbacks}

\* C29: test_provider reports success only when the text the adapter returned is
\* none of the fallback notices.
C29_TestRejectsFallback ==
    \A u \in Users, name \in ProviderNames, inp \in RouteInputs, fb2 \in TestDraws :
        TestProviderAs(u, name, inp, fb2) =>
            ProviderGenerate(name, inp.outcome, inp.fb).text \notin FallbackSet


\* the log_user_interaction call that has just returned ran without any failure
Recorded == lastLog # NoLog /\ lastLog.fault = "no"

\* C31: after every successful record for a user, messages_today is the number of
\* the user's stored rows created since the start of the current UTC day and
\* messages_this_week the number created since the Monday of the current UTC week.
C31_PeriodicCounters ==
    Recorded =>
        LET rows == user_interactions[lastLog.user]
            stats == user_stats[lastLog.user]
        IN /\ stats.messages_today = CountSince(rows, TodayStart(now))
           /\ stats.messages_this_week = CountSince(rows, WeekStart(now))

\* the first record after a Monday midnight: two rows are stored and one of them
\* belongs to the new day and the new week
C31_Witness ==
    /\ Recorded
    /\ Weekday(Day(now)) = 0
    /\ Len(user_interactions[lastLog.user]) = 2
    /\ user_stats[lastLog.user].total_messages = 2
    /\ user_stats[lastLog.user].messages_today = 1
    /\ user_stats[lastLog.user].messages_this_week = 1

\* C40: whatever records and clears have run, failed aggregate updates included,
\* every aggregate row has messages_today <= messages_this_week <= total_messages.
C40_AggregateOrdered ==
    \A u \in Users :
        /\ user_stats[u].messages_today <= user_stats[u].messages_this_week
        /\ user_stats[u].messages_this_week <= user_stats[u].total_messages


\* the turn that has just ended was a text message of a user with no stored
\* preference and no session override, with exactly one adapter registered, and
\* neither the cache, the reply nor the database failed
DefaultTurn ==
    /\ turn.kind = "text" /\ turn.admitted
    /\ settings[turn.user].provider = None
    /\ user_preferences[turn.user].provider = None
    /\ Cardinality({p \in ProviderNames : providers[p] # NoAdapter}) = 1
    /\ redis_state = "ready" /\ turn.storeFault = "no" /\ turn.dbFault = "no"
    /\ ~(\E i \in DOMAIN turn.events : turn.events[i] = "error_reply")

\* C32: a text message of a user with no stored preference and no session
\* override, with exactly one adapter registered at startup, is answered by that
\* adapter with a non-empty reply, appended once to the user's conversation and
\* counted once in the user's usage
C32_DefaultTurn ==
    DefaultTurn =>
       /\ Cardinality({i \in DOMAIN turn.events : turn.events[i] = "adapter_call"}) = 1
       /\ turn.response # NoContent /\ turn.response.t # UNAVAILABLE
       /\ turn.appended
       /\ turn.logged /\ lastLog.user = turn.user /\ lastLog.fault = "no"


\* C36: a request of a user who never set a session override, served by the
\* registered adapter of the process-wide default provider, runs with the model
\* that adapter was registered with, whatever session overrides with a model other
\* users have set and used before
C36_ModelIsolation ==
    (LookedUp /\ Selected = None /\ Override = None /\ last.path = "default"
        /\ Len(last.calls) = 1)
       => /\ IsRegisteredAdapter(last.calls[1], current_provider)
          /\ last.calls[1].model = ConfigModel(current_provider)


\* C37: every adapter invoked for a user's request carries either the credential
\* that user stored for the adapter's provider or the credential the process was
\* started with, never one stored by another user; and the registered adapters
\* keep the credential they were registered with
C37_CredentialConfinement ==
    /\ Called =>
         \A i \in DOMAIN last.calls :
            LET a == last.calls[i] IN
            \/ a.api_key = EnvKey(a.name) /\ a.shared
            \/ HasKey(a.name) /\ a.api_key = settings[Requester].api_keys[a.name]
                              /\ a.api_key.owner = Requester
    /\ \A p \in ProviderNames :
          providers[p] # NoAdapter => providers[p].api_key = EnvKey(p)

\* C37 witness: both users have stored a credential for the same provider, which is
\* also registered, and the request was served with the requester's own credential
C37_Witness ==
    /\ LookedUp /\ Len(last.calls) = 1
    /\ \A v \in Users : settings[v].api_keys[last.calls[1].name] # NoKey
    /\ last.calls[1].name \in Registered
    /\ last.calls[1].api_key.owner = Requester
    /\ Requester = 2


FlagSet(u) == user_data[u].conversation_state # None
Waiting(u) == conversations[u] = WAITING_FOR_API_KEY
\* the handle_message call that has just returned did nothing
InertTurn ==
    /\ turn.events = <<>> /\ ~turn.admitted /\ ~turn.appended /\ ~turn.logged
    /\ lastLog = NoLog

\* C38: the conversation_state flag of a user is set exactly while the settings
\* conversation waits for that user's key, so that a key or /cancel is taken by the
\* conversation and ends it; and a text handled by handle_message while the flag is
\* set checks no rate limit, invokes no adapter and appends nothing
C38_SettingsGating ==
    /\ \A u \in Users : FlagSet(u) <=> Waiting(u)
    /\ (turn # NoTurn /\ FlagSet(turn.user)) => InertTurn


\* the prefix check of handle_api_key_input
PassesPrefixCheck(p, k) ==
    IF p = "openai" THEN StartsWith(KeyText(k), <<"sk-">>)
    ELSE \/ StartsWith(KeyText(k), <<"sk-", "ant-">>)
         \/ StartsWith(KeyText(k), <<"sk-", "ant_api03-">>)

\* C39: every handle_api_key_input call with a key that passes the prefix check
\* stores the key whether or not its test succeeds; the call makes the entered
\* provider the user's selected provider exactly when the test succeeded and the
\* user had none, and leaves a selected provider as it was
C39_KeyEntry ==
    [][\A u \in Users, p \in ProviderNames, test_result \in BOOLEAN :
         \A k \in TypedKeys(u) :
            HandleApiKeyInput(u, p, k, test_result, "no", "no") =>
               LET tested == IF p = "claude" THEN TRUE ELSE test_result IN
               /\ PassesPrefixCheck(p, k) =>
                     /\ settings'[u].api_keys[p] = k
                     /\ (tested /\ settings[u].provider = None) => settings'[u].provider = p
                     /\ ~tested => settings'[u].provider = settings[u].provider
               /\ ~PassesPrefixCheck(p, k) => settings' = settings
               /\ settings[u].provider # None => settings'[u].provider = settings[u].provider
    ]_vars

\* C39 witness: user 1 holds a key of each provider entered in the settings
\* conversation; openai was selected by the first entry and the claude key entered
\* afterwards, whose test always passes, did not replace it
C39_Witness ==
    /\ settings[1].provider = "openai"
    /\ settings[1].api_keys["openai"] # NoKey
    /\ settings[1].api_keys["claude"] # NoKey
    /\ conversations[1] = END /\ user_data[1] = NoData

\* C39 witness: a key was stored although its test failed, and no provider was
\* selected
C39_WitnessFailedTest ==
    /\ settings[1].provider = None
    /\ settings[1].api_keys["openai"] # NoKey


\* the request ClaudeProvider.generate_response has just built, and its input
Built == adapterCall.request # NoRequest
SystemMessages == SelectSeq(adapterCall.messages, LAMBDA m : m.role = "system")
OtherMessages == SelectSeq(adapterCall.messages, LAMBDA m : m.role # "system")
UserContent == Join([i \in DOMAIN OtherMessages |-> OtherMessages[i].content], <<"\n\n">>)

\* C34 (as stated): for every list of messages the request has no system field
\* when the list has no system message, carries each system message of the list
\* as its system field otherwise, and has exactly one message, of role user, whose
\* content is the contents of the other messages in their order, joined by blank
\* lines
C34_AsStated ==
    Built =>
       /\ SystemMessages = <<>> => ~adapterCall.request.has_system
       /\ \A i \in DOMAIN SystemMessages :
             /\ adapterCall.request.has_system
             /\ adapterCall.request.system = SystemMessages[i].content
       /\ adapterCall.request.messages = <<[role |-> "user", content |-> UserContent]>>

\* C34 (amended): the system field carries the content of the last system message
\* of the list and is omitted when the list has none or when that content is
\* empty; the request has exactly one message, of role user, whose content is the
\* contents of the other messages in their order, joined by blank lines
C34_Translation ==
    Built =>
       LET system_message == IF SystemMessages = <<>> THEN <<>>
                             ELSE SystemMessages[Len(SystemMessages)].content
       IN /\ adapterCall.request.has_system = (system_message # <<>>)
          /\ adapterCall.request.has_system => adapterCall.request.system = system_message
          /\ adapterCall.request.messages = <<[role |-> "user", content |-> UserContent]>>

\* C34 witness: a system message between two other messages became the system
\* field, and the two others one user message with a blank line between them
C34_Witness ==
    /\ Built
    /\ adapterCall.messages = <<[role |-> "user", content |-> <<"b">>],
                                [role |-> "system", content |-> <<"a">>],
                                [role |-> "assistant", content |-> <<"a">>]>>
    /\ adapterCall.request = [has_system |-> TRUE, system |-> <<"a">>,
                              messages |-> <<[role |-> "user",
                                              content |-> <<"b", "\n\n", "a">>]>>]


\* no add of user u stands between its push and its return
Quiet(u) == \A t \in Tasks : tasks[t].pc = "idle" \/ tasks[t].user # u

AdmittedWithin(u, i) ==
    {j \in DOMAIN admitted[u] : /\ admitted[u][j] > admitted[u][i] - WINDOW
                                /\ admitted[u][j] <= admitted[u][i]}

\* C35: however the handle_message coroutines of a user interleave, the window
\* stored for the user never holds more timestamps than the ceiling, and no 60
\* seconds hold more admitted calls of the user than the ceiling
C35_CeilingUnderConcurrency ==
    \A u \in Users :
       /\ Len(rate_limit_cache[u]) <= rate_limit
       /\ \A i \in DOMAIN admitted[u] : Cardinality(AdmittedWithin(u, i)) <= rate_limit

\* C35 witness: two coroutines of user 1 were scheduled while the window was
\* empty; the first check filled the window and the second one was rejected
C35_Witness ==
    /\ rate_limit = 1
    /\ \A t \in Tasks : tasks[t].pc = "awaiting" /\ tasks[t].user = 1 /\ tasks[t].seen = <<>>
    /\ Checked /\ ~lastCheck.result /\ lastCheck.user = 1
    /\ Len(admitted[1]) = 1

====
